---- MODULE Spec2Model ----
(***************************************************************************)
(* TL2cgen: the compiler pipeline (ASTBuilder passes and the C code        *)
(* generator) for the TypeMeta<float, float> instantiation.                *)
(*                                                                         *)
(* Numbers.  A float is modelled by the integer n with value n / UNIT,     *)
(* UNIT = 2^14.  The values used are "plain" values (multiples of 0.5) and *)
(* "fine" values 1000 + k * 2^-14, which are consecutive floats: in the    *)
(* binade [512, 1024) a float has 24 - 10 = 14 fractional bits.  PosInf,   *)
(* NegInf and NaN are sentinels; every comparison goes through the         *)
(* IEEE 754 operators below.                                               *)
(*                                                                         *)
(* Pointers.  ASTBuilder::nodes_ is the arena; an ASTNode* is an index     *)
(* into it and nullptr is 0.  std::optional<T> is a sequence of length     *)
(* 0 or 1.                                                                 *)
(***************************************************************************)
EXTENDS Integers, Sequences, FiniteSets, TLC

VARIABLES model, nodes, main_node, meta, last_call, gencode,
          dmat, annotator, pfor, predictor, parser, annotation, capi

\* the state of the compiler pipeline, and the state of the run-time parts
\* (the branch annotator, a parallel loop, the predictor, the parser of the
\* compiler parameters, a saved annotation, the C API); each specification below moves one of the
\* two and leaves the other as it starts
compiler_vars == <<nodes, main_node, meta, last_call, gencode>>
runtime_vars == <<dmat, annotator, pfor, predictor, parser, annotation, capi>>

vars == <<model, nodes, main_node, meta, last_call, gencode, dmat, annotator,
         pfor, predictor, parser, annotation, capi>>

(***************************************************************************)
(* Bounds of the model                                                     *)
(***************************************************************************)
MaxTree == 2
MaxNumTu == 3
MaxUlp == 2

(***************************************************************************)
(* Program constants                                                       *)
(***************************************************************************)
INT_MAX == 2147483647
INT_MIN == (-2147483647) - 1
FLT_MANT_DIG == 24
FLT_DIG == 6
FLT_DECIMAL_DIG == 9
QUANTIZE_BELOW == -10
UNIT == 2 ^ 14

(***************************************************************************)
(* IEEE 754 values and comparisons                                         *)
(***************************************************************************)
PosInf == 2 ^ 30
NegInf == -(2 ^ 30)
NaN == 2 ^ 30 + 1

Real(x) == x * UNIT
Fine(k) == 1000 * UNIT + k

isnan(x) == x = NaN
isinf(x) == x = PosInf \/ x = NegInf
isfinite(x) == ~isnan(x) /\ ~isinf(x)

FEq(a, b) == ~isnan(a) /\ ~isnan(b) /\ a = b
FLt(a, b) == ~isnan(a) /\ ~isnan(b) /\ a < b
FLe(a, b) == ~isnan(a) /\ ~isnan(b) /\ a <= b
FGt(a, b) == ~isnan(a) /\ ~isnan(b) /\ a > b
FGe(a, b) == ~isnan(a) /\ ~isnan(b) /\ a >= b

Operators == {"kEQ", "kLT", "kLE", "kGT", "kGE"}

CompareWithOp(lhs, op, rhs) ==
  CASE op = "kEQ" -> FEq(lhs, rhs)
    [] op = "kLT" -> FLt(lhs, rhs)
    [] op = "kLE" -> FLe(lhs, rhs)
    [] op = "kGT" -> FGt(lhs, rhs)
    [] op = "kGE" -> FGe(lhs, rhs)

OperatorToString(op) ==
  CASE op = "kEQ" -> "=="
    [] op = "kLT" -> "<"
    [] op = "kLE" -> "<="
    [] op = "kGT" -> ">"
    [] op = "kGE" -> ">="

\* the C comparison of two ints, by the operator's spelling in the emitted text
IntCompare(a, opname, b) ==
  CASE opname = "==" -> a = b
    [] opname = "<" -> a < b
    [] opname = "<=" -> a <= b
    [] opname = ">" -> a > b
    [] opname = ">=" -> a >= b

\* the C comparison of two floats, by the operator's spelling in the emitted text
FloatCompare(a, opname, b) ==
  CASE opname = "==" -> FEq(a, b)
    [] opname = "<" -> FLt(a, b)
    [] opname = "<=" -> FLe(a, b)
    [] opname = ">" -> FGt(a, b)
    [] opname = ">=" -> FGe(a, b)

(***************************************************************************)
(* Sequence helpers                                                        *)
(***************************************************************************)
RECURSIVE SeqSum(_)
SeqSum(s) == IF s = <<>> THEN 0 ELSE Head(s) + SeqSum(Tail(s))

RECURSIVE SeqMax(_)
SeqMax(s) == IF Len(s) = 1 THEN s[1]
             ELSE LET m == SeqMax(Tail(s)) IN IF s[1] >= m THEN s[1] ELSE m

RECURSIVE Flatten(_)
Flatten(ss) == IF ss = <<>> THEN <<>> ELSE Head(ss) \o Flatten(Tail(ss))

Min(a, b) == IF a < b THEN a ELSE b

Range(s) == {s[i] : i \in DOMAIN s}

RECURSIVE SeqsUpTo(_, _)
SeqsUpTo(S, n) ==
  IF n = 0 THEN {<<>>}
  ELSE LET shorter == SeqsUpTo(S, n - 1)
       IN shorter \cup {Append(s, x) : s \in {t \in shorter : Len(t) = n - 1}, x \in S}

(***************************************************************************)
(* The treelite model handed to the compiler (an input value).  A tree is  *)
(* its node array; node nid is element nid + 1.                            *)
(***************************************************************************)
LeafNode(v) ==
  [is_leaf |-> TRUE, node_type |-> "kLeafNode", split_index |-> 0, default_left |-> FALSE,
   op |-> "kLT", threshold |-> 0, category_list |-> <<>>,
   category_list_right_child |-> FALSE, left_child |-> -1, right_child |-> -1,
   leaf_value |-> v, leaf_vector |-> <<>>]

NumericalTest(f, dl, o, t, l, r) ==
  [is_leaf |-> FALSE, node_type |-> "kNumericalTestNode", split_index |-> f,
   default_left |-> dl, op |-> o, threshold |-> t, category_list |-> <<>>,
   category_list_right_child |-> FALSE, left_child |-> l, right_child |-> r,
   leaf_value |-> 0, leaf_vector |-> <<>>]

CategoricalTest(f, dl, cats, rc, l, r) ==
  [is_leaf |-> FALSE, node_type |-> "kCategoricalTestNode", split_index |-> f,
   default_left |-> dl, op |-> "kLT", threshold |-> 0, category_list |-> cats,
   category_list_right_child |-> rc, left_child |-> l, right_child |-> r,
   leaf_value |-> 0, leaf_vector |-> <<>>]

LeafTree == <<LeafNode(Real(1))>>

\* a tree of one leaf that holds a leaf vector
LeafVectorTree(size) ==
  <<[LeafNode(0) EXCEPT !.leaf_vector = [i \in 1..size |-> Real(i)]]>>

NumStump(f, dl, o, t) == <<NumericalTest(f, dl, o, t, 1, 2), LeafNode(Real(-1)), LeafNode(Real(1))>>

CatStump(f, dl, cats, rc) ==
  <<CategoricalTest(f, dl, cats, rc, 1, 2), LeafNode(Real(-1)), LeafNode(Real(1))>>

\* three numerical tests on feature 0 and one categorical test on feature 1
DeepTree ==
  <<NumericalTest(0, TRUE, "kLT", Fine(0), 1, 2),
    NumericalTest(0, FALSE, "kLE", Real(-1), 3, 4),
    NumericalTest(0, TRUE, "kLT", Fine(2), 5, 6),
    LeafNode(Real(-1)),
    CategoricalTest(1, FALSE, <<1, 3, 5>>, FALSE, 7, 8),
    LeafNode(Real(1)),
    LeafNode(Real(2)),
    LeafNode(Real(3)),
    LeafNode(Real(4))>>

Thresholds == {NegInf, PosInf, Real(-1), 0, Real(1)} \cup {Fine(k) : k \in 0..MaxUlp}

CategoryLists == {<<>>, <<0>>, <<3>>, <<1, 3, 5>>, <<1, 65>>}

TreeCatalogue ==
  {LeafTree, NumStump(0, TRUE, "kLT", Fine(1)), NumStump(2, FALSE, "kGE", PosInf),
   NumStump(2, TRUE, "kLE", 0), DeepTree}

NumFeature == 3

\* base_scores[t, c], all different
BaseScores(num_target, max_num_class) ==
  [i \in 1..(num_target * max_num_class) |-> Real(10 + i)]

ScalarModel(trees) ==
  [num_target |-> 1, num_class |-> <<1>>, leaf_vector_shape |-> <<1, 1>>,
   num_feature |-> NumFeature, average_tree_output |-> FALSE,
   base_scores |-> BaseScores(1, 1),
   target_id |-> [i \in 1..Len(trees) |-> 0], class_id |-> [i \in 1..Len(trees) |-> 0],
   trees |-> trees]

\* models that differ in the number and the shape of their trees
StructModels == {ScalarModel(trees) : trees \in SeqsUpTo(TreeCatalogue, MaxTree)}

\* models with one test of every kind, next to the tests of DeepTree
NodeTrees ==
  {NumStump(0, dl, o, t) : dl \in BOOLEAN, o \in Operators, t \in Thresholds}
    \cup {CatStump(1, dl, cats, rc) : dl \in BOOLEAN, cats \in CategoryLists, rc \in BOOLEAN}

NodeModels == {ScalarModel(<<tree, DeepTree>>) : tree \in NodeTrees}

\* models with several targets and classes; the leaf vector shape fixes, for
\* the whole model, which of target_id and class_id are -1
NumClassChoices == {<<1>>, <<1, 2>>, <<2, 2>>}

TreeIds(num_class, all_targets, all_classes) ==
  {tc \in (IF all_targets THEN {-1} ELSE 0..(Len(num_class) - 1))
            \X (IF all_classes THEN {-1} ELSE 0..(SeqMax(num_class) - 1)) :
     tc[2] >= 0 =>
       \A t \in 0..(Len(num_class) - 1) :
         (tc[1] = t \/ tc[1] = -1) => tc[2] < num_class[t + 1]}

TargetModel(num_class, all_targets, all_classes, avg, ids) ==
  [num_target |-> Len(num_class), num_class |-> num_class,
   leaf_vector_shape |-> <<IF all_targets THEN Len(num_class) ELSE 1,
                           IF all_classes THEN SeqMax(num_class) ELSE 1>>,
   num_feature |-> NumFeature, average_tree_output |-> avg,
   base_scores |-> BaseScores(Len(num_class), SeqMax(num_class)),
   target_id |-> [i \in 1..Len(ids) |-> ids[i][1]],
   class_id |-> [i \in 1..Len(ids) |-> ids[i][2]],
   trees |-> [i \in 1..Len(ids) |->
                IF all_targets \/ all_classes
                THEN LeafVectorTree((IF all_targets THEN Len(num_class) ELSE 1)
                                      * (IF all_classes THEN SeqMax(num_class) ELSE 1))
                ELSE LeafTree]]

TargetModels ==
  UNION {{TargetModel(nc, at, ac, avg, ids) :
            avg \in BOOLEAN, ids \in SeqsUpTo(TreeIds(nc, at, ac), MaxTree)} :
           nc \in NumClassChoices, at \in BOOLEAN, ac \in BOOLEAN}

Models == StructModels \cup NodeModels \cup TargetModels

(***************************************************************************)
(* AST nodes (ast.h).  One record shape for every node class; a field that *)
(* a class does not have keeps its default.                                *)
(***************************************************************************)
nullptr == 0
nullopt == <<>>

ASTNode(kind, parent) ==
  [kind |-> kind, parent |-> parent, children |-> <<>>, node_id |-> -1, tree_id |-> -1,
   data_count |-> nullopt,
   base_scores |-> <<>>, average_factor |-> nullopt,
   unit_id |-> -1, threshold_list |-> <<>>,
   split_index |-> 0, default_left |-> FALSE,
   op |-> "kLT", threshold |-> 0, quantized_threshold |-> nullopt, zero_quantized |-> -1,
   category_list |-> <<>>, category_list_right_child |-> FALSE,
   target_id |-> -1, class_id |-> -1, leaf_output |-> <<>>]

MainNode(parent, base_scores, average_factor) ==
  [ASTNode("MainNode", parent) EXCEPT !.base_scores = base_scores,
                                      !.average_factor = average_factor]

FunctionNode(parent) == ASTNode("FunctionNode", parent)

\* a TranslationUnit node that does not know its parent
TranslationUnitNodeNoParent(parent, unit_id) ==
  [ASTNode("TranslationUnitNode", nullptr) EXCEPT !.unit_id = unit_id]

TranslationUnitNode(parent, unit_id) ==
  [ASTNode("TranslationUnitNode", parent) EXCEPT !.unit_id = unit_id]

QuantizerNode(parent, threshold_list) ==
  [ASTNode("QuantizerNode", parent) EXCEPT !.threshold_list = threshold_list]

NumericalConditionNode(parent, split_index, default_left, op, threshold, quantized_threshold) ==
  [ASTNode("NumericalConditionNode", parent) EXCEPT
     !.split_index = split_index, !.default_left = default_left, !.op = op,
     !.threshold = threshold, !.quantized_threshold = quantized_threshold,
     !.zero_quantized = -1]

CategoricalConditionNode(parent, split_index, default_left, category_list, right_child) ==
  [ASTNode("CategoricalConditionNode", parent) EXCEPT
     !.split_index = split_index, !.default_left = default_left,
     !.category_list = category_list, !.category_list_right_child = right_child]

OutputNode(parent, target_id, class_id, leaf_output) ==
  [ASTNode("OutputNode", parent) EXCEPT
     !.target_id = target_id, !.class_id = class_id, !.leaf_output = leaf_output]

IsConditionNode(n) == n.kind \in {"NumericalConditionNode", "CategoricalConditionNode"}

\* AddNode: the new node goes to the end of the arena, the result is its pointer
AddNode(arena, node) == Append(arena, node)

(***************************************************************************)
(* build.cc                                                                *)
(***************************************************************************)
\* ComputeAverageFactor's loop over the trees.  average_factor[i] of the
\* code is element i + 1; Cells is the set of i that one tree increments.
\* AverageFactorCells without the loop over targets for a tree of every target
\* and class
AverageFactorCellsFirstTargetOnly(m, tree_id) ==
  LET max_num_class == SeqMax(m.num_class)
      tid == m.target_id[tree_id]
      cid == m.class_id[tree_id]
  IN  IF tid < 0 /\ cid < 0
      THEN {c : c \in 0..(m.num_class[1] - 1)}
      ELSE IF tid < 0
      THEN {t * max_num_class + cid : t \in 0..(m.num_target - 1)}
      ELSE IF cid < 0
      THEN {tid * max_num_class + c : c \in 0..(m.num_class[tid + 1] - 1)}
      ELSE {tid * max_num_class + cid}

\* the cells of average_factor that one tree increments
AverageFactorCells(m, tree_id) ==
  LET max_num_class == SeqMax(m.num_class)
      tid == m.target_id[tree_id]
      cid == m.class_id[tree_id]
  IN  IF tid < 0 /\ cid < 0
      THEN UNION {{t * max_num_class + c : c \in 0..(m.num_class[t + 1] - 1)} :
                    t \in 0..(m.num_target - 1)}
      ELSE IF tid < 0
      THEN {t * max_num_class + cid : t \in 0..(m.num_target - 1)}
      ELSE IF cid < 0
      THEN {tid * max_num_class + c : c \in 0..(m.num_class[tid + 1] - 1)}
      ELSE {tid * max_num_class + cid}

RECURSIVE AverageFactorLoop(_, _, _)
AverageFactorLoop(m, average_factor, tree_id) ==
  IF tree_id > Len(m.trees) THEN average_factor
  ELSE AverageFactorLoop(m,
         [i \in DOMAIN average_factor |->
            average_factor[i] + (IF (i - 1) \in AverageFactorCells(m, tree_id) THEN 1 ELSE 0)],
         tree_id + 1)

ComputeAverageFactor(m) ==
  IF ~m.average_tree_output THEN nullopt
  ELSE <<AverageFactorLoop(m, [i \in 1..(m.num_target * SeqMax(m.num_class)) |-> 0], 1)>>

\* BuildASTFromTree: the node itself is added first, then its left subtree,
\* then its right subtree.  The result is the arena and the new node's pointer.
RECURSIVE BuildASTFromTree(_, _, _, _, _, _, _, _)
BuildASTFromTree(arena, shape, parent, tree, tree_id, target_id, class_id, nid) ==
  LET tn == tree[nid + 1]
      ref == Len(arena) + 1
  IN  IF tn.is_leaf
      THEN [nodes |-> AddNode(arena,
                        [OutputNode(parent, target_id, class_id,
                                    IF shape[1] = 1 /\ shape[2] = 1
                                    THEN <<tn.leaf_value>>
                                    ELSE tn.leaf_vector)
                           EXCEPT !.node_id = nid, !.tree_id = tree_id]),
            ref |-> ref]
      ELSE
        LET ast_node ==
              IF tn.node_type = "kNumericalTestNode"
              THEN NumericalConditionNode(parent, tn.split_index, tn.default_left, tn.op,
                                          tn.threshold, nullopt)
              ELSE CategoricalConditionNode(parent, tn.split_index, tn.default_left,
                                            tn.category_list, tn.category_list_right_child)
            a1 == AddNode(arena, ast_node)
            left == BuildASTFromTree(a1, shape, ref, tree, tree_id, target_id, class_id,
                                     tn.left_child)
            right == BuildASTFromTree(left.nodes, shape, ref, tree, tree_id, target_id,
                                      class_id, tn.right_child)
        IN  [nodes |-> [right.nodes EXCEPT ![ref].children = <<left.ref, right.ref>>,
                                           ![ref].node_id = nid,
                                           ![ref].tree_id = tree_id],
             ref |-> ref]

\* the loop of BuildAST over the trees: func->children_.push_back(tree_head)
RECURSIVE BuildTrees(_, _, _, _)
BuildTrees(arena, func, m, tree_id) ==
  IF tree_id >= Len(m.trees) THEN arena
  ELSE LET built == BuildASTFromTree(arena, m.leaf_vector_shape, func, m.trees[tree_id + 1],
                                     tree_id, m.target_id[tree_id + 1],
                                     m.class_id[tree_id + 1], 0)
       IN  BuildTrees([built.nodes EXCEPT ![func].children = Append(@, built.ref)],
                      func, m, tree_id + 1)

NoCall == [name |-> "none", ok |-> TRUE, arg |-> 0]
NoCode == [generated |-> FALSE]
NoMeta == [num_target |-> 0, num_class |-> <<>>, leaf_vector_shape |-> <<0, 0>>,
           num_feature |-> 0, is_categorical |-> <<>>]

BuildAST ==
  /\ main_node = nullptr
  /\ LET a1 == AddNode(<<>>, MainNode(nullptr, model.base_scores, ComputeAverageFactor(model)))
         main == Len(a1)
         a2 == AddNode(a1, FunctionNode(main))
         func == Len(a2)
         a3 == [a2 EXCEPT ![main].children = Append(@, func)]
     IN  /\ nodes' = BuildTrees(a3, func, model, 0)
         /\ main_node' = main
  /\ meta' = [num_target |-> model.num_target, num_class |-> model.num_class,
              leaf_vector_shape |-> model.leaf_vector_shape,
              num_feature |-> model.num_feature, is_categorical |-> <<>>]
  /\ last_call' = [name |-> "BuildAST", ok |-> TRUE, arg |-> 0]
  /\ UNCHANGED <<model, gencode>>
  /\ UNCHANGED runtime_vars

(***************************************************************************)
(* is_categorical_array.cc                                                 *)
(***************************************************************************)
RECURSIVE ScanCategorical(_, _, _)
RECURSIVE ScanCategoricalOfChildren(_, _, _, _)

\* ScanThresholds of is_categorical_array.cc
ScanCategorical(arena, node, is_categorical) ==
  LET n == arena[node]
      marked == IF n.kind = "CategoricalConditionNode"
                THEN [is_categorical EXCEPT ![n.split_index + 1] = TRUE]
                ELSE is_categorical
  IN  ScanCategoricalOfChildren(arena, n.children, 1, marked)

ScanCategoricalOfChildren(arena, children, k, is_categorical) ==
  IF k > Len(children) THEN is_categorical
  ELSE ScanCategoricalOfChildren(arena, children, k + 1,
                                 ScanCategorical(arena, children[k], is_categorical))

GenerateIsCategoricalArray ==
  /\ main_node # nullptr
  /\ ~gencode.generated
  /\ meta' = [meta EXCEPT !.is_categorical =
                ScanCategorical(nodes, main_node, [f \in 1..meta.num_feature |-> FALSE])]
  /\ last_call' = [name |-> "GenerateIsCategoricalArray", ok |-> TRUE, arg |-> 0]
  /\ UNCHANGED <<model, nodes, main_node, gencode>>
  /\ UNCHANGED runtime_vars

(***************************************************************************)
(* load_data_counts.cc                                                     *)
(***************************************************************************)
\* counts of the shape of the model, as an annotator hands them over:
\* counts[tree_id][node_id]
DataCountChoices == {0, 7}
CountsOfShapeOf(m, first) ==
  [t \in DOMAIN m.trees |-> [n \in DOMAIN m.trees[t] |-> first + 10 * t + n]]

RECURSIVE LoadDataCountsFromNode(_, _, _)
RECURSIVE LoadDataCountsOfChildren(_, _, _, _)
LoadDataCountsFromNode(arena, node, counts) ==
  LET n == arena[node]
      loaded == IF n.tree_id >= 0 /\ n.node_id >= 0
                THEN [arena EXCEPT ![node].data_count = <<counts[n.tree_id + 1][n.node_id + 1]>>]
                ELSE arena
  IN  LoadDataCountsOfChildren(loaded, n.children, 1, counts)
LoadDataCountsOfChildren(arena, children, k, counts) ==
  IF k > Len(children) THEN arena
  ELSE LoadDataCountsOfChildren(LoadDataCountsFromNode(arena, children[k], counts),
                                children, k + 1, counts)

LoadDataCounts(counts) ==
  /\ main_node # nullptr
  /\ ~gencode.generated
  /\ nodes' = LoadDataCountsFromNode(nodes, main_node, counts)
  /\ last_call' = [name |-> "LoadDataCounts", ok |-> TRUE, arg |-> 0]
  /\ UNCHANGED <<model, main_node, meta, gencode>>
  /\ UNCHANGED runtime_vars

(***************************************************************************)
(* C int arithmetic.  Signed overflow is undefined behaviour: the build    *)
(* either wraps modulo 2^32 (two's complement code) or traps (-ftrapv).    *)
(***************************************************************************)
SignedOverflowOutcomes == {"wrap", "trap"}

AddOverflows(a, b) == (b > 0 /\ a > INT_MAX - b) \/ (b < 0 /\ a < INT_MIN - b)

\* a + b modulo 2^32, computed without leaving the int range
AddWrap(a, b) ==
  IF b > 0 /\ a > INT_MAX - b THEN INT_MIN + ((a - INT_MAX) + (b - 1))
  ELSE IF b < 0 /\ a < INT_MIN - b THEN INT_MAX + ((a - INT_MIN) + (b + 1))
  ELSE a + b

\* C division truncates toward zero (b > 0)
CDiv(a, b) ==
  IF a >= 0 THEN a \div b
  ELSE (a \div b) + (IF a % b = 0 THEN 0 ELSE 1)

\* IsFunctionNode with the dynamic_cast left out
IsFunctionNodeUnchecked(arena, node) == node \in DOMAIN arena

\* dynamic_cast<FunctionNode*>(node) is not null
IsFunctionNode(arena, node) == arena[node].kind = "FunctionNode"

(***************************************************************************)
(* split.cc                                                                *)
(***************************************************************************)
RECURSIVE CountTUNodes(_, _)
RECURSIVE CountTUNodesOfChildren(_, _, _)
CountTUNodes(arena, node) ==
  (IF arena[node].kind = "TranslationUnitNode" THEN 1 ELSE 0)
    + CountTUNodesOfChildren(arena, arena[node].children, 1)
CountTUNodesOfChildren(arena, children, k) ==
  IF k > Len(children) THEN 0
  ELSE CountTUNodes(arena, children[k]) + CountTUNodesOfChildren(arena, children, k + 1)

\* the inner loop: tree_head_node->parent_ = func; func->children_.push_back(...)
RECURSIVE MoveTrees(_, _, _, _, _)
MoveTrees(arena, func, tree_head, tree_id, tree_end) ==
  IF tree_id >= tree_end THEN arena
  ELSE LET tree_head_node == tree_head[tree_id + 1]
       IN  MoveTrees([arena EXCEPT ![tree_head_node].parent = func,
                                   ![func].children = Append(@, tree_head_node)],
                     func, tree_head, tree_id + 1, tree_end)

\* The loop over unit_id.  st = [nodes, tu_list].  The loop of the code runs
\* to num_tu; the test tree_begin < tree_end is false in every iteration once
\* unit_size <= 0 or unit_id * unit_size >= ntree, so those iterations, which
\* change nothing, are not unrolled.
RECURSIVE SplitLoop(_, _, _, _, _, _, _, _)
SplitLoop(st, top_func_node, tree_head, ntree, unit_size, current_num_tu, num_tu, unit_id) ==
  IF unit_id >= num_tu \/ unit_size <= 0 \/ unit_id * unit_size >= ntree THEN st
  ELSE
    LET tree_begin == unit_id * unit_size
        tree_end == Min((unit_id + 1) * unit_size, ntree)
    IN  IF tree_begin < tree_end
        THEN LET a1 == AddNode(st.nodes,
                               TranslationUnitNode(top_func_node, current_num_tu + unit_id))
                 tu == Len(a1)
                 a2 == AddNode(a1, FunctionNode(tu))
                 func == Len(a2)
                 a3 == [a2 EXCEPT ![tu].children = Append(@, func)]
                 a4 == MoveTrees(a3, func, tree_head, tree_begin, tree_end)
             IN  SplitLoop([nodes |-> a4, tu_list |-> Append(st.tu_list, tu)],
                           top_func_node, tree_head, ntree, unit_size, current_num_tu,
                           num_tu, unit_id + 1)
        ELSE SplitLoop(st, top_func_node, tree_head, ntree, unit_size, current_num_tu,
                       num_tu, unit_id + 1)

\* int const unit_size = (ntree + num_tu - 1) / num_tu
UnitSize(ntree, num_tu) == CDiv(AddWrap(AddWrap(ntree, num_tu), -1), num_tu)

NumTuChoices == (0..MaxNumTu) \cup {INT_MAX}

SplitIntoTUs(num_tu) ==
  /\ main_node # nullptr
  /\ ~gencode.generated
  /\ UNCHANGED <<model, main_node, meta, gencode>>
  /\ IF num_tu <= 0
     THEN /\ nodes' = nodes
          /\ last_call' = [name |-> "SplitIntoTUs", ok |-> TRUE, arg |-> num_tu]
     ELSE
       LET top_func_node == nodes[main_node].children[1]
           tree_head == nodes[top_func_node].children
           ntree == Len(tree_head)
           checks == /\ Len(nodes[main_node].children) = 1
                     /\ IsFunctionNode(nodes, top_func_node)
                     /\ \A k \in DOMAIN tree_head :
                          IsConditionNode(nodes[tree_head[k]])
                            \/ nodes[tree_head[k]].kind = "OutputNode"
           unit_size == UnitSize(ntree, num_tu)
           current_num_tu == CountTUNodes(nodes, main_node)
           st == SplitLoop([nodes |-> nodes, tu_list |-> <<>>], top_func_node, tree_head,
                           ntree, unit_size, current_num_tu, num_tu, 0)
       IN  IF ~checks
           THEN /\ nodes' = nodes
                /\ last_call' = [name |-> "SplitIntoTUs", ok |-> FALSE, arg |-> num_tu]
           ELSE \E outcome \in SignedOverflowOutcomes :
                  IF outcome = "trap"
                  THEN /\ AddOverflows(ntree, num_tu)
                       /\ nodes' = nodes
                       /\ last_call' = [name |-> "SplitIntoTUs", ok |-> FALSE, arg |-> num_tu]
                  ELSE /\ nodes' = [st.nodes EXCEPT ![top_func_node].children = st.tu_list]
                       /\ last_call' = [name |-> "SplitIntoTUs", ok |-> TRUE, arg |-> num_tu]
  /\ UNCHANGED runtime_vars

(***************************************************************************)
(* math_funcs.h and <algorithm>                                            *)
(***************************************************************************)
\* std::lower_bound on a sorted range: the offset of the first element that
\* is not less than val, Len(v) when there is none
LowerBound(v, val) ==
  CHOOSE i \in 0..Len(v) :
    /\ \A j \in 1..i : FLt(v[j], val)
    /\ i < Len(v) => ~FLt(v[i + 1], val)

\* BinarySearch: the offset of val, Len(v) (end) when val is not found
BinarySearch(v, val) ==
  LET i == LowerBound(v, val)
  IN  IF i # Len(v) /\ FEq(val, v[i + 1]) THEN i ELSE Len(v)

\* the elements of a std::set<float> in iteration order (ascending)
RECURSIVE SetToSortedSeq(_)
SetToSortedSeq(S) ==
  IF S = {} THEN <<>>
  ELSE LET m == CHOOSE x \in S : \A y \in S : x <= y
       IN  <<m>> \o SetToSortedSeq(S \ {m})

(***************************************************************************)
(* quantize.cc                                                             *)
(***************************************************************************)
\* ScanThresholds.  acc = [ok, cut_pts]; ok = FALSE stands for the exception
\* thrown by TL2CGEN_CHECK, which ends the traversal.  cut_pts[f + 1] is the
\* std::set of feature f.
RECURSIVE ScanThresholds(_, _, _)
RECURSIVE ScanThresholdsOfChildren(_, _, _, _)
ScanThresholds(arena, node, acc) ==
  LET n == arena[node]
  IN  IF ~acc.ok THEN acc
      ELSE IF n.kind = "NumericalConditionNode"
      THEN IF n.quantized_threshold # nullopt
           THEN [acc EXCEPT !.ok = FALSE]
           ELSE ScanThresholdsOfChildren(arena, n.children, 1,
                  IF isfinite(n.threshold)
                  THEN [acc EXCEPT !.cut_pts[n.split_index + 1] = @ \cup {n.threshold}]
                  ELSE acc)
      ELSE ScanThresholdsOfChildren(arena, n.children, 1, acc)
ScanThresholdsOfChildren(arena, children, k, acc) ==
  IF k > Len(children) THEN acc
  ELSE ScanThresholdsOfChildren(arena, children, k + 1,
                                ScanThresholds(arena, children[k], acc))

\* zero_quantized without the decrement
ZeroQuantizedNoDecrement(v) == LowerBound(v, 0) * 2

\* zero_quantized of RewriteThresholds
ZeroQuantized(v) ==
  LET loc == LowerBound(v, 0)
  IN  IF loc # Len(v) /\ ~FEq(0, v[loc + 1]) THEN loc * 2 - 1 ELSE loc * 2

\* RewriteNode with the bin index stored as it is, not doubled
RewriteNodeNoDoubling(n, cut_pts) ==
  IF n.kind = "NumericalConditionNode"
  THEN IF n.quantized_threshold # nullopt
       THEN [ok |-> FALSE, node |-> n]
       ELSE IF isfinite(n.threshold)
       THEN LET v == cut_pts[n.split_index + 1]
                loc == BinarySearch(v, n.threshold)
            IN  IF loc = Len(v)
                THEN [ok |-> FALSE, node |-> n]
                ELSE [ok |-> TRUE,
                      node |-> [n EXCEPT !.quantized_threshold = <<loc>>,
                                         !.zero_quantized = ZeroQuantized(v)]]
       ELSE [ok |-> TRUE, node |-> n]
  ELSE [ok |-> TRUE, node |-> n]

\* what RewriteThresholds does to the node it is called on, before it
\* descends: ok = FALSE for a failed TL2CGEN_CHECK
RewriteNode(n, cut_pts) ==
  IF n.kind = "NumericalConditionNode"
  THEN IF n.quantized_threshold # nullopt
       THEN [ok |-> FALSE, node |-> n]
       ELSE IF isfinite(n.threshold)
       THEN LET v == cut_pts[n.split_index + 1]
                loc == BinarySearch(v, n.threshold)
            IN  IF loc = Len(v)
                THEN [ok |-> FALSE, node |-> n]
                ELSE [ok |-> TRUE,
                      node |-> [n EXCEPT !.quantized_threshold = <<loc * 2>>,
                                         !.zero_quantized = ZeroQuantized(v)]]
       ELSE [ok |-> TRUE, node |-> n]
  ELSE [ok |-> TRUE, node |-> n]

\* RewriteThresholds.  st = [ok, nodes].
RECURSIVE RewriteThresholds(_, _, _)
RECURSIVE RewriteThresholdsOfChildren(_, _, _, _)
RewriteThresholds(st, node, cut_pts) ==
  IF ~st.ok THEN st
  ELSE LET rewritten == RewriteNode(st.nodes[node], cut_pts)
       IN  IF ~rewritten.ok THEN [st EXCEPT !.ok = FALSE]
           ELSE RewriteThresholdsOfChildren([st EXCEPT !.nodes[node] = rewritten.node],
                                            rewritten.node.children, 1, cut_pts)
\* a rewrite that does not descend
RewriteThresholdsOfNoChildren(st, children, k, cut_pts) == st

RewriteThresholdsOfChildren(st, children, k, cut_pts) ==
  IF k > Len(children) THEN st
  ELSE RewriteThresholdsOfChildren(RewriteThresholds(st, children[k], cut_pts),
                                   children, k + 1, cut_pts)

QuantizeThresholds ==
  /\ main_node # nullptr
  /\ ~gencode.generated
  /\ UNCHANGED <<model, main_node, meta, gencode>>
  /\ LET scanned == ScanThresholds(nodes, main_node,
                      [ok |-> TRUE, cut_pts |-> [f \in 1..meta.num_feature |-> {}]])
         cut_pts_vec == [f \in 1..meta.num_feature |-> SetToSortedSeq(scanned.cut_pts[f])]
         rewritten == RewriteThresholds([ok |-> TRUE, nodes |-> nodes], main_node, cut_pts_vec)
         top_func_node == rewritten.nodes[main_node].children[1]
     IN  IF ~scanned.ok
         THEN /\ nodes' = nodes
              /\ last_call' = [name |-> "QuantizeThresholds", ok |-> FALSE, arg |-> 0]
         ELSE IF \/ ~rewritten.ok
                 \/ Len(rewritten.nodes[main_node].children) # 1
                 \/ ~IsFunctionNode(rewritten.nodes, top_func_node)
         THEN /\ nodes' = rewritten.nodes
              /\ last_call' = [name |-> "QuantizeThresholds", ok |-> FALSE, arg |-> 0]
         ELSE LET a1 == AddNode(rewritten.nodes, QuantizerNode(main_node, cut_pts_vec))
                  quantizer_node == Len(a1)
              IN  /\ nodes' = [a1 EXCEPT ![quantizer_node].children = Append(@, top_func_node),
                                         ![top_func_node].parent = quantizer_node,
                                         ![main_node].children[1] = quantizer_node]
                  /\ last_call' = [name |-> "QuantizeThresholds", ok |-> TRUE, arg |-> 0]
  /\ UNCHANGED runtime_vars

(***************************************************************************)
(* format_util.h: a float written as decimal text, and the text read back  *)
(* by the C compiler as a float constant.                                  *)
(*                                                                         *)
(* A text is [neg, ip, num, den], the value ip + num / den.  printf's %g   *)
(* with precision p and a stream with setprecision(p) both write p         *)
(* significant digits, correctly rounded.  A value with j fractional bits  *)
(* has exactly j decimals, so it is written exactly when j <= the number   *)
(* of decimals D that p leaves after the integer part.  The values whose   *)
(* text is inexact lie in [512, 1024), where the floats are the multiples  *)
(* of 1 / UNIT.                                                            *)
(***************************************************************************)
Abs(x) == IF x < 0 THEN -x ELSE x

RECURSIVE Pow10(_)
Pow10(n) == IF n = 0 THEN 1 ELSE 10 * Pow10(n - 1)

\* a / b rounded to the nearest integer, ties to even (a >= 0, b > 0)
RoundHalfEven(a, b) ==
  LET q == a \div b
      r == a % b
  IN  IF 2 * r < b THEN q
      ELSE IF 2 * r > b THEN q + 1
      ELSE IF q % 2 = 0 THEN q ELSE q + 1

\* the decimal exponent of ip + k / UNIT, a positive value
RECURSIVE DecimalExponentOfInt(_)
DecimalExponentOfInt(ip) == IF ip < 10 THEN 0 ELSE 1 + DecimalExponentOfInt(ip \div 10)

RECURSIVE DecimalExponentOfFraction(_)
DecimalExponentOfFraction(k) ==
  IF 10 * k >= UNIT THEN -1 ELSE DecimalExponentOfFraction(10 * k) - 1

DecimalExponent(ip, k) ==
  IF ip > 0 THEN DecimalExponentOfInt(ip) ELSE DecimalExponentOfFraction(k)

\* the number of binary digits after the point of k / 2^bits
RECURSIVE FractionBits(_, _)
FractionBits(k, bits) ==
  IF k = 0 THEN 0
  ELSE IF k % 2 = 1 THEN bits
  ELSE FractionBits(k \div 2, bits - 1)

UNIT_BITS == CHOOSE j \in 0..30 : 2 ^ j = UNIT

\* a finite float as text with p significant digits
FormatG(x, p) ==
  LET ip == Abs(x) \div UNIT
      k == Abs(x) % UNIT
  IN  IF x = 0 THEN [neg |-> FALSE, ip |-> 0, num |-> 0, den |-> UNIT]
      ELSE LET D == p - 1 - DecimalExponent(ip, k)
           IN  IF FractionBits(k, UNIT_BITS) <= D
               THEN [neg |-> x < 0, ip |-> ip, num |-> k, den |-> UNIT]
               ELSE [neg |-> x < 0, ip |-> ip,
                     num |-> RoundHalfEven(k * Pow10(D), UNIT), den |-> Pow10(D)]

\* the float nearest to the value of a decimal text
ParseFloat(text) ==
  LET n == text.ip * UNIT + RoundHalfEven(text.num * UNIT, text.den)
  IN  IF text.neg THEN -n ELSE n

\* ArrayFormatter::GetPrecision<float>
ArrayFormatterPrecision == FLT_DIG + 2

\* ArrayFormatter << v for a float v, as the compiler reads the element back
ArrayFormatterFloat(v) == ParseFloat(FormatG(v, ArrayFormatterPrecision))

\* ToStringHighPrecision(float), as the compiler reads the literal back
ToStringHighPrecision(v) == ParseFloat(FormatG(v, FLT_DECIMAL_DIG + 2))

(***************************************************************************)
(* codegen.cc: CodeCollection.  A fragment is a record that names the      *)
(* template it was formatted from and carries the template's arguments;    *)
(* an emitted C expression is a record tree (e = the operator).            *)
(***************************************************************************)
EmptyCollection == [sources |-> <<>>, current_file |-> ""]

SwitchToSourceFile(gc, source_name) == [gc EXCEPT !.current_file = source_name]

\* sources_[current_file_].PushFragment(content): std::map::operator[]
\* creates the file when it is not there
PushFragment(gc, content) ==
  IF gc.current_file \in DOMAIN gc.sources
  THEN [gc EXCEPT !.sources[gc.current_file] = Append(@, content)]
  ELSE [gc EXCEPT !.sources = @ @@ (gc.current_file :> <<content>>)]

(***************************************************************************)
(* condition_node.cc                                                       *)
(***************************************************************************)
PresentTest(split_index) == [e |-> "missing != -1", split_index |-> split_index]
MissingTest(split_index) == [e |-> "missing == -1", split_index |-> split_index]

\* ExtractNumericalCondition with the operands of the constant comparison
\* the other way round
ExtractNumericalConditionSwapped(node) ==
  IF node.quantized_threshold # nullopt
  THEN [e |-> "qvalue op", split_index |-> node.split_index,
        opname |-> OperatorToString(node.op), threshold |-> node.quantized_threshold[1]]
  ELSE IF isinf(node.threshold)
  THEN [e |-> "literal", value |-> IF CompareWithOp(node.threshold, node.op, 0) THEN 1 ELSE 0]
  ELSE [e |-> "fvalue op", split_index |-> node.split_index,
        opname |-> OperatorToString(node.op),
        threshold |-> ToStringHighPrecision(node.threshold)]

ExtractNumericalCondition(node) ==
  IF node.quantized_threshold # nullopt
  THEN [e |-> "qvalue op", split_index |-> node.split_index,
        opname |-> OperatorToString(node.op), threshold |-> node.quantized_threshold[1]]
  ELSE IF isinf(node.threshold)
  THEN [e |-> "literal", value |-> IF CompareWithOp(0, node.op, node.threshold) THEN 1 ELSE 0]
  ELSE [e |-> "fvalue op", split_index |-> node.split_index,
        opname |-> OperatorToString(node.op),
        threshold |-> ToStringHighPrecision(node.threshold)]

\* GetCategoricalBitmap with every bit set in the first word
GetCategoricalBitmapFirstWord(category_list) ==
  LET num_categories == Len(category_list)
  IN  IF num_categories = 0 THEN <<{}>>
      ELSE LET max_category == category_list[num_categories]
           IN  [idx \in 1..((max_category + 1 + 63) \div 64) |->
                  IF idx = 1 THEN {category_list[c] % 64 : c \in DOMAIN category_list}
                  ELSE {}]

\* a 64-bit word of the bitmap is the set of its bits that are 1
GetCategoricalBitmap(category_list) ==
  LET num_categories == Len(category_list)
  IN  IF num_categories = 0 THEN <<{}>>
      ELSE LET max_category == category_list[num_categories]
           IN  [idx \in 1..((max_category + 1 + 63) \div 64) |->
                  {category_list[c] % 64 :
                     c \in {d \in DOMAIN category_list : category_list[d] \div 64 = idx - 1}}]

ExtractCategoricalCondition(node) ==
  LET bitmap == GetCategoricalBitmap(node.category_list)
      all_zeros == \A idx \in DOMAIN bitmap : bitmap[idx] = {}
      bitmap_test == [e |-> "bitmap test", split_index |-> node.split_index, bitmap |-> bitmap]
      flagged == IF node.category_list_right_child
                 THEN [e |-> "!", arg |-> bitmap_test]
                 ELSE bitmap_test
  IN  IF all_zeros THEN [e |-> "literal", value |-> 0]
      ELSE IF node.default_left
      THEN [e |-> "||", lhs |-> MissingTest(node.split_index), rhs |-> flagged]
      ELSE [e |-> "&&", lhs |-> PresentTest(node.split_index), rhs |-> flagged]

\* the condition of the if statement that HandleConditionNode emits
ConditionWithNaCheck(arena, node) ==
  LET n == arena[node]
      condition_with_na_check ==
        IF n.kind = "NumericalConditionNode"
        THEN IF n.default_left
             THEN [e |-> "||", lhs |-> [e |-> "!", arg |-> PresentTest(n.split_index)],
                   rhs |-> ExtractNumericalCondition(n)]
             ELSE [e |-> "&&", lhs |-> PresentTest(n.split_index),
                   rhs |-> ExtractNumericalCondition(n)]
        ELSE ExtractCategoricalCondition(n)
      left == arena[n.children[1]].data_count
      right == arena[n.children[2]].data_count
  IN  IF left # nullopt /\ right # nullopt
      THEN [e |-> IF left[1] > right[1] THEN "LIKELY" ELSE "UNLIKELY",
            arg |-> condition_with_na_check]
      ELSE condition_with_na_check

(***************************************************************************)
(* output_node.cc                                                          *)
(***************************************************************************)
\* the (offset, index into leaf_output) pairs of the emitted statements, in
\* order; ok = FALSE when a TL2CGEN_CHECK on the leaf shape fails
OutputStatements(n, m) ==
  LET max_num_class == SeqMax(m.num_class)
      nt == m.num_target
  IN  IF n.target_id < 0 /\ n.class_id < 0
      THEN [ok |-> m.leaf_vector_shape = <<nt, max_num_class>>
                     /\ Len(n.leaf_output) = nt * max_num_class,
            cells |-> Flatten([t \in 1..nt |->
                        [c \in 1..m.num_class[t] |->
                           <<(t - 1) * max_num_class + (c - 1),
                             (t - 1) * max_num_class + (c - 1)>>]])]
      ELSE IF n.target_id < 0
      THEN [ok |-> m.leaf_vector_shape = <<nt, 1>> /\ Len(n.leaf_output) = nt,
            cells |-> [t \in 1..nt |-> <<(t - 1) * max_num_class + n.class_id, t - 1>>]]
      ELSE IF n.class_id < 0
      THEN [ok |-> m.leaf_vector_shape = <<1, max_num_class>>
                     /\ Len(n.leaf_output) = max_num_class,
            cells |-> [c \in 1..m.num_class[n.target_id + 1] |->
                         <<n.target_id * max_num_class + (c - 1), c - 1>>]]
      ELSE [ok |-> m.leaf_vector_shape = <<1, 1>> /\ Len(n.leaf_output) = 1,
            cells |-> <<<<n.target_id * max_num_class + n.class_id, 0>>>>]

\* fmt's default rendering of a float: the shortest text that reads back as
\* the same float, which has at most max_digits10 digits
FmtDefault(v) == ParseFloat(FormatG(v, FLT_DECIMAL_DIG))

\* HandleOutputNode.  st = [ok, gc].
HandleOutputNode(arena, node, m, st) ==
  LET n == arena[node]
      out == OutputStatements(n, m)
      RECURSIVE Push(_, _)
      Push(gc, k) ==
        IF k > Len(out.cells) THEN gc
        ELSE Push(PushFragment(gc, [kind |-> "result +=", offset |-> out.cells[k][1],
                                    value |-> FmtDefault(n.leaf_output[out.cells[k][2] + 1]),
                                    node |-> node]),
                  k + 1)
  IN  IF Len(n.children) # 0 \/ ~out.ok THEN [st EXCEPT !.ok = FALSE]
      ELSE [st EXCEPT !.gc = Push(st.gc, 1)]

(***************************************************************************)
(* quantizer_node.cc: the arrays of quantize.c                             *)
(***************************************************************************)
\* threshold[] with the thresholds of the first feature alone
ArrayThresholdFirstFeature(threshold_list) ==
  IF threshold_list = <<>> THEN <<>>
  ELSE [k \in DOMAIN threshold_list[1] |-> ArrayFormatterFloat(threshold_list[1][k])]

\* threshold[]: every threshold_list[i][k] in order, through ArrayFormatter
ArrayThreshold(threshold_list) ==
  Flatten([f \in DOMAIN threshold_list |->
             [k \in DOMAIN threshold_list[f] |-> ArrayFormatterFloat(threshold_list[f][k])]])

\* th_begin[] with every offset 0
ArrayThBeginZero(threshold_list) == [f \in DOMAIN threshold_list |-> 0]

\* th_begin[]: the running sum of the list sizes
ArrayThBegin(threshold_list) ==
  [f \in DOMAIN threshold_list |->
     SeqSum([g \in 1..(f - 1) |-> Len(threshold_list[g])])]

\* th_len[]
ArrayThLen(threshold_list) == [f \in DOMAIN threshold_list |-> Len(threshold_list[f])]

TotalNumThreshold(threshold_list) ==
  SeqSum([f \in DOMAIN threshold_list |-> Len(threshold_list[f])])

(***************************************************************************)
(* codegen.cc: GenerateCodeFromAST and the Handle functions.               *)
(* st = [ok, gc]; ok = FALSE stands for a thrown TL2CGEN_CHECK.            *)
(***************************************************************************)
RECURSIVE GenerateCodeFromAST(_, _, _, _)
RECURSIVE GenerateChildren(_, _, _, _, _)

GenerateChildren(arena, children, k, m, st) ==
  IF k > Len(children) \/ ~st.ok THEN st
  ELSE GenerateChildren(arena, children, k + 1, m,
                        GenerateCodeFromAST(arena, children[k], m, st))

HandleFunctionNode(arena, node, m, st) ==
  GenerateChildren(arena, arena[node].children, 1, m,
                   [st EXCEPT !.gc = PushFragment(@, [kind |-> "unsigned int tmp;"])])

HandleConditionNode(arena, node, m, st) ==
  LET n == arena[node]
      s1 == [st EXCEPT !.gc = PushFragment(@, [kind |-> "if", node |-> node,
                                               condition |-> ConditionWithNaCheck(arena, node)])]
      s2 == IF Len(n.children) # 2 THEN [s1 EXCEPT !.ok = FALSE]
            ELSE GenerateCodeFromAST(arena, n.children[1], m, s1)
      s3 == IF ~s2.ok THEN s2
            ELSE GenerateCodeFromAST(arena, n.children[2], m,
                   [s2 EXCEPT !.gc = PushFragment(@, [kind |-> "} else {", node |-> node])])
  IN  IF ~s3.ok THEN s3
      ELSE [s3 EXCEPT !.gc = PushFragment(@, [kind |-> "}", node |-> node])]

HandleTranslationUnitNode(arena, node, m, st) ==
  LET n == arena[node]
      current_file == st.gc.current_file
      g1 == PushFragment(st.gc, [kind |-> "predict_unit(data, result);", unit_id |-> n.unit_id])
      g2 == PushFragment(SwitchToSourceFile(g1, "header.h"),
                         [kind |-> "predict_unit prototype", unit_id |-> n.unit_id])
      g3 == PushFragment(SwitchToSourceFile(g2, "tu" \o ToString(n.unit_id) \o ".c"),
                         [kind |-> "predict_unit {", unit_id |-> n.unit_id])
      s4 == GenerateCodeFromAST(arena, n.children[1], m, [st EXCEPT !.gc = g3])
  IN  IF Len(n.children) # 1 THEN [st EXCEPT !.ok = FALSE]
      ELSE IF ~s4.ok THEN s4
      ELSE [s4 EXCEPT !.gc = SwitchToSourceFile(
                                PushFragment(@, [kind |-> "}", node |-> node]), current_file)]

HandleQuantizerNode(arena, node, m, st) ==
  LET n == arena[node]
      array_threshold == ArrayThreshold(n.threshold_list)
      array_th_begin == ArrayThBegin(n.threshold_list)
      array_th_len == ArrayThLen(n.threshold_list)
      total_num_threshold == TotalNumThreshold(n.threshold_list)
      current_file == st.gc.current_file
      g1 == PushFragment(st.gc, [kind |-> "quantize loop", num_feature |-> m.num_feature])
      g2 == PushFragment(SwitchToSourceFile(g1, "header.h"), [kind |-> "quantize prototype"])
      g3 == PushFragment(SwitchToSourceFile(g2, "quantize.c"),
                         [kind |-> "quantize arrays", threshold |-> array_threshold,
                          th_begin |-> array_th_begin, th_len |-> array_th_len])
      g4 == PushFragment(g3, [kind |-> "quantize function",
                              total_num_threshold |-> total_num_threshold])
      g5 == SwitchToSourceFile(g4, current_file)
      s1 == IF array_threshold # <<>> /\ array_th_begin # <<>> /\ array_th_len # <<>>
            THEN [st EXCEPT !.gc = g5]
            ELSE st
  IN  IF Len(n.children) # 1 THEN [s1 EXCEPT !.ok = FALSE]
      ELSE GenerateCodeFromAST(arena, n.children[1], m, s1)

\* the statements HandleMainNode emits after its child: <<offset, index>>
\* pairs in order, the index being the one the code uses to read
\* average_factor and base_scores_
MainNodeCells(m) ==
  LET max_num_class == SeqMax(m.num_class)
  IN  Flatten([t \in 1..m.num_target |->
                 [c \in 1..m.num_class[t] |->
                    <<(t - 1) * max_num_class + (c - 1), c - 1>>]])

\* ToStringHighPrecision(double) of a base score: max_digits10 + 2 = 19 digits
DBL_DECIMAL_DIG == 17
ToStringHighPrecisionDouble(v) == ParseFloat(FormatG(v, DBL_DECIMAL_DIG + 2))

HandleMainNode(arena, node, m, st) ==
  LET n == arena[node]
      cells == MainNodeCells(m)
      g1 == PushFragment(SwitchToSourceFile(st.gc, "header.h"), [kind |-> "header"])
      g2 == PushFragment(SwitchToSourceFile(g1, "main.c"), [kind |-> "main start",
                                                             is_categorical |-> m.is_categorical])
      s3 == IF Len(n.children) # 1 THEN [st EXCEPT !.ok = FALSE]
            ELSE GenerateCodeFromAST(arena, n.children[1], m, [st EXCEPT !.gc = g2])
      RECURSIVE PushAverage(_, _)
      PushAverage(gc, k) ==
        IF k > Len(cells) THEN gc
        ELSE PushAverage(PushFragment(gc, [kind |-> "result /=", offset |-> cells[k][1],
                                           value |-> n.average_factor[1][cells[k][2] + 1]]),
                         k + 1)
      RECURSIVE PushBaseScores(_, _)
      PushBaseScores(gc, k) ==
        IF k > Len(cells) THEN gc
        ELSE PushBaseScores(
               PushFragment(gc, [kind |-> "result +=", offset |-> cells[k][1],
                                 value |-> ToStringHighPrecisionDouble(
                                             n.base_scores[cells[k][2] + 1]),
                                 node |-> node]),
               k + 1)
      g4 == IF n.average_factor # nullopt
            THEN PushAverage(PushFragment(s3.gc, [kind |-> "// Average tree outputs"]), 1)
            ELSE s3.gc
      g5 == PushBaseScores(PushFragment(g4, [kind |-> "// Apply base_scores"]), 1)
      g6 == PushFragment(g5, [kind |-> "if (!pred_margin) { postprocess(result); }"])
      g7 == PushFragment(PushFragment(g6, [kind |-> "}", node |-> node]),
                         [kind |-> "postprocess function"])
  IN  IF ~s3.ok THEN s3 ELSE [s3 EXCEPT !.gc = g7]

GenerateCodeFromAST(arena, node, m, st) ==
  LET kind == arena[node].kind
  IN  CASE kind = "MainNode" -> HandleMainNode(arena, node, m, st)
        [] kind = "FunctionNode" -> HandleFunctionNode(arena, node, m, st)
        [] IsConditionNode(arena[node]) -> HandleConditionNode(arena, node, m, st)
        [] kind = "OutputNode" -> HandleOutputNode(arena, node, m, st)
        [] kind = "TranslationUnitNode" -> HandleTranslationUnitNode(arena, node, m, st)
        [] kind = "QuantizerNode" -> HandleQuantizerNode(arena, node, m, st)

\* the compiler's call GenerateCodeFromAST(builder.GetRootNode(), gencode)
GenerateCode ==
  /\ main_node # nullptr
  /\ ~gencode.generated
  /\ LET st == GenerateCodeFromAST(nodes, main_node, meta,
                                   [ok |-> TRUE, gc |-> EmptyCollection])
     IN  gencode' = [generated |-> TRUE, ok |-> st.ok, sources |-> st.gc.sources]
  /\ last_call' = [name |-> "GenerateCode", ok |-> TRUE, arg |-> 0]
  /\ UNCHANGED <<model, nodes, main_node, meta>>
  /\ UNCHANGED runtime_vars

(***************************************************************************)
(* The emitted C program, executed.  An Entry of the data row is the union *)
(* {int missing; float fvalue; int qvalue} with the member last written.   *)
(***************************************************************************)
MissingEntry == [tag |-> "missing", v |-> -1]
FvalueEntry(v) == [tag |-> "fvalue", v |-> v]
QvalueEntry(q) == [tag |-> "qvalue", v |-> q]

\* data[i].missing == -1: the three members of union Entry share their storage,
\* so a stored qvalue of -1 reads as the missing sentinel; the int with all
\* bits set is a NaN with an all-ones payload as a float, which is none of the
\* values of the model
ReadsAsMissing(entry) ==
  \/ entry.tag = "missing"
  \/ entry.tag = "qvalue" /\ entry.v = -1

\* half-integers: Half(7) is 3.5
Half(h) == h * (UNIT \div 2)

\* values a present feature can hold
FeatureValues ==
  {NaN, PosInf, NegInf}
    \cup {Half(h) : h \in {-3, -2, -1, 0, 1, 2, 4, 6, 7, 10, 128, 130, 131, 256, 258}}
    \cup {Fine(k) : k \in (-1)..(MaxUlp + 1)}

\* (unsigned int)fvalue is defined when the truncated value fits unsigned int
\* (every finite value of the model does then); otherwise the conversion is
\* undefined and tmp holds whatever the build leaves there
UnsignedCastDefined(v) == isfinite(v) /\ v > -UNIT
UnsignedCastOutcomes(v) ==
  IF UnsignedCastDefined(v) THEN {CDiv(v, UNIT)} ELSE {0, 1, 3, 5, 65, INT_MAX}

\* fabsf(v) <= (float)(1U << FLT_MANT_DIG)
FabsAtMostMantissa(v) ==
  /\ isfinite(v)
  /\ \/ Abs(v) \div UNIT < 2 ^ FLT_MANT_DIG
     \/ Abs(v) \div UNIT = 2 ^ FLT_MANT_DIG /\ Abs(v) % UNIT = 0

\* the generated quantize(val, fid); arrays is the "quantize arrays" fragment,
\* total_num_threshold the constant of the function fragment.  The loop is
\* given len + 1 rounds: terminates = FALSE means it wanted more.
Quantize(val, fid, arrays, total_num_threshold) ==
  LET offset == arrays.th_begin[fid + 1]
      array(i) == arrays.threshold[offset + i + 1]
      len == arrays.th_len[fid + 1]
      Last(low, high) ==
        IF FEq(array(low), val) THEN low * 2
        ELSE IF high = len THEN len * 2
        ELSE low * 2 + 1
      RECURSIVE While(_, _, _)
      While(low, high, fuel) ==
        IF ~(low + 1 < high) THEN [terminates |-> TRUE, ret |-> Last(low, high)]
        ELSE IF fuel = 0 THEN [terminates |-> FALSE, ret |-> 0]
        ELSE LET mid == CDiv(low + high, 2)
                 mval == array(mid)
             IN  IF FEq(val, mval) THEN [terminates |-> TRUE, ret |-> mid * 2]
                 ELSE IF FLt(val, mval) THEN While(low, mid, fuel - 1)
                 ELSE While(mid, high, fuel - 1)
  IN  IF offset = total_num_threshold \/ FLt(val, array(0))
      THEN [terminates |-> TRUE, ret |-> QUANTIZE_BELOW]
      ELSE While(0, len, len + 1)

\* the offsets into threshold[] that the generated quantize(val, fid) reads:
\* array[0] unless offset == total_num_threshold ends the test, then every
\* array[mid] of the loop and in the end array[low]
QuantizeReads(val, fid, arrays, total_num_threshold) ==
  LET offset == arrays.th_begin[fid + 1]
      array(i) == arrays.threshold[offset + i + 1]
      len == arrays.th_len[fid + 1]
      RECURSIVE While(_, _, _)
      While(low, high, fuel) ==
        IF ~(low + 1 < high) \/ fuel = 0 THEN {offset + low}
        ELSE LET mid == CDiv(low + high, 2)
                 mval == array(mid)
             IN  {offset + mid} \cup
                   (IF FEq(val, mval) THEN {}
                    ELSE IF FLt(val, mval) THEN While(low, mid, fuel - 1)
                    ELSE While(mid, high, fuel - 1))
  IN  IF offset = total_num_threshold THEN {}
      ELSE IF FLt(val, array(0)) THEN {offset}
      ELSE {offset} \cup While(0, len, len + 1)

\* one round of the quantize loop of main.c on data[i]
QuantizeEntryUnguarded(entry, i, is_categorical, arrays, total_num_threshold) ==
  IF ~is_categorical[i + 1]
  THEN QvalueEntry(Quantize(IF entry.tag = "missing" THEN NaN ELSE entry.v, i, arrays,
                            total_num_threshold).ret)
  ELSE entry

QuantizeEntry(entry, i, is_categorical, arrays, total_num_threshold) ==
  IF ~ReadsAsMissing(entry) /\ ~is_categorical[i + 1]
  THEN QvalueEntry(Quantize(entry.v, i, arrays, total_num_threshold).ret)
  ELSE entry

\* the value of an emitted condition on the row data; ub is what tmp holds
\* after an undefined conversion
RECURSIVE EvalCondition(_, _, _)
EvalCondition(expr, data, ub) ==
  CASE expr.e = "literal" -> expr.value = 1
    [] expr.e = "missing != -1" -> ~ReadsAsMissing(data[expr.split_index + 1])
    [] expr.e = "missing == -1" -> ReadsAsMissing(data[expr.split_index + 1])
    [] expr.e = "!" -> ~EvalCondition(expr.arg, data, ub)
    [] expr.e = "||" -> IF EvalCondition(expr.lhs, data, ub) THEN TRUE
                        ELSE EvalCondition(expr.rhs, data, ub)
    [] expr.e = "&&" -> IF EvalCondition(expr.lhs, data, ub)
                        THEN EvalCondition(expr.rhs, data, ub) ELSE FALSE
    [] expr.e \in {"LIKELY", "UNLIKELY"} -> EvalCondition(expr.arg, data, ub)
    [] expr.e = "qvalue op" ->
         IntCompare(data[expr.split_index + 1].v, expr.opname, expr.threshold)
    [] expr.e = "fvalue op" ->
         FloatCompare(data[expr.split_index + 1].v, expr.opname, expr.threshold)
    [] expr.e = "bitmap test" ->
         LET fvalue == data[expr.split_index + 1].v
             tmp == IF UnsignedCastDefined(fvalue) THEN CDiv(fvalue, UNIT) ELSE ub
         IN  /\ FGe(fvalue, 0)
             /\ FabsAtMostMantissa(fvalue)
             /\ \E i \in DOMAIN expr.bitmap :
                  /\ tmp >= (i - 1) * 64
                  /\ tmp < i * 64
                  /\ (tmp - (i - 1) * 64) \in expr.bitmap[i]

\* the fragments of one emitted file, <<>> when the file was not written
SourceOf(gc, name) == IF name \in DOMAIN gc.sources THEN gc.sources[name] ELSE <<>>

\* every fragment emitted, whatever the file
AllFragments(gc) == UNION {Range(gc.sources[name]) : name \in DOMAIN gc.sources}

(***************************************************************************)
(* Run-time parts.  The threads of a parallel region are numbered from 0;  *)
(* a step of the model is one step of one thread, so that TLC explores     *)
(* every interleaving of the threads.                                      *)
(***************************************************************************)
\* bound: the largest team of threads, omp_get_max_threads()
MaxNumThread == 2

(***************************************************************************)
(* data_matrix.h: the dense and the CSR matrix.  A NaN cell of the         *)
(* generator below is a cell without a value: it is left out of a CSR      *)
(* matrix, and it is NaN in a dense one.                                   *)
(***************************************************************************)
CellCycle == <<Fine(0), NaN, Half(1), Fine(2), Real(3)>>
CellValue(r, j) == CellCycle[((r + 2 * j) % Len(CellCycle)) + 1]

DenseDMatrix(num_row, num_col, missing_value) ==
  [kind |-> "dense", num_row |-> num_row, num_col |-> num_col,
   missing_value |-> missing_value,
   data |-> [i \in 1..(num_row * num_col) |->
               CellValue((i - 1) \div num_col, (i - 1) % num_col)],
   col_ind |-> <<>>, row_ptr |-> <<>>]

\* the columns of row r that hold a value, in increasing order
RECURSIVE PresentColumns(_, _, _)
PresentColumns(r, j, num_col) ==
  IF j = num_col THEN <<>>
  ELSE (IF isnan(CellValue(r, j)) THEN <<>> ELSE <<j>>) \o PresentColumns(r, j + 1, num_col)

RECURSIVE CSRColInd(_, _, _)
CSRColInd(r, num_row, num_col) ==
  IF r = num_row THEN <<>>
  ELSE PresentColumns(r, 0, num_col) \o CSRColInd(r + 1, num_row, num_col)

RECURSIVE CSRData(_, _, _)
CSRData(r, num_row, num_col) ==
  IF r = num_row THEN <<>>
  ELSE LET cols == PresentColumns(r, 0, num_col)
       IN  [k \in 1..Len(cols) |-> CellValue(r, cols[k])] \o CSRData(r + 1, num_row, num_col)

CSRDMatrix(num_row, num_col) ==
  [kind |-> "csr", num_row |-> num_row, num_col |-> num_col, missing_value |-> NaN,
   data |-> CSRData(0, num_row, num_col),
   col_ind |-> CSRColInd(0, num_row, num_col),
   row_ptr |-> [r \in 1..(num_row + 1) |-> Len(CSRColInd(0, r - 1, num_col))]]

\* no matrix at all: the value of dmat where no run-time part runs
NoMatrix ==
  [kind |-> "none", num_row |-> 0, num_col |-> 0, missing_value |-> NaN,
   data |-> <<>>, col_ind |-> <<>>, row_ptr |-> <<>>]

(***************************************************************************)
(* annotator.cc                                                            *)
(***************************************************************************)
\* the number of bands AnnotateImpl cuts the rows into
ProgressBands == 20

\* pstep of AnnotateImpl
ProgressStep(num_row) == (num_row + (ProgressBands - 1)) \div ProgressBands

\* the smallest matrix a band of which holds more than one row
ManyRows == ProgressBands + 1

\* the matrices annotate is given: as wide as the model and narrower
NumRowChoices == {0, 1, 3, ManyRows}
NumColChoices == {1, NumFeature}
MissingValues == {NaN, Real(3)}

Matrices ==
  {DenseDMatrix(r, c, mv) : r \in NumRowChoices, c \in NumColChoices, mv \in MissingValues}
    \cup {CSRDMatrix(r, c) : r \in NumRowChoices, c \in NumColChoices}

AnnotatorModels ==
  {ScalarModel(<<tree>>) : tree \in TreeCatalogue}
    \cup {ScalarModel(<<NumStump(0, TRUE, "kLT", Fine(1)), DeepTree>>)}

\* what a read past the end of a vector can return
OutOfBoundsEntries == {MissingEntry, FvalueEntry(Fine(0)), FvalueEntry(Real(3))}

\* the category static_cast<std::uint32_t>(fvalue) yields; ub is what it
\* yields where the conversion is undefined
CategoryOf(fvalue, ub) == IF UnsignedCastDefined(fvalue) THEN CDiv(fvalue, UNIT) ELSE ub

\* the values an undefined conversion can yield while data is traversed
UbChoices(data) ==
  IF \A i \in DOMAIN data : data[i].tag = "missing" \/ UnsignedCastDefined(data[i].v)
  THEN {0}
  ELSE UnsignedCastOutcomes(NaN)

\* Traverse_: out_counts are the counts of the nodes of tree
RECURSIVE Traverse_(_, _, _, _, _)
Traverse_(tree, data, nid, out_counts, ub) ==
  LET n == tree[nid + 1]
      counted == [out_counts EXCEPT ![nid + 1] = @ + 1]
  IN  IF n.is_leaf THEN counted
      ELSE LET entry == data[n.split_index + 1]
               found == CategoryOf(entry.v, ub) \in Range(n.category_list)
               result ==
                 IF n.node_type = "kNumericalTestNode"
                 THEN CompareWithOp(entry.v, n.op, n.threshold)
                 ELSE IF n.category_list_right_child THEN ~found ELSE found
               child ==
                 IF entry.tag = "missing"
                 THEN (IF n.default_left THEN n.left_child ELSE n.right_child)
                 ELSE IF result THEN n.left_child ELSE n.right_child
           IN  Traverse_(tree, data, child, counted, ub)

\* the split_index of every data[split_index] that Traverse_ reads on its
\* way from nid to a leaf
RECURSIVE TraverseReads(_, _, _, _)
TraverseReads(tree, data, nid, ub) ==
  LET n == tree[nid + 1]
  IN  IF n.is_leaf THEN {}
      ELSE LET entry == data[n.split_index + 1]
               found == CategoryOf(entry.v, ub) \in Range(n.category_list)
               result ==
                 IF n.node_type = "kNumericalTestNode"
                 THEN CompareWithOp(entry.v, n.op, n.threshold)
                 ELSE IF n.category_list_right_child THEN ~found ELSE found
               child ==
                 IF entry.tag = "missing"
                 THEN (IF n.default_left THEN n.left_child ELSE n.right_child)
                 ELSE IF result THEN n.left_child ELSE n.right_child
           IN  {n.split_index} \cup TraverseReads(tree, data, child, ub)

\* count_row_ptr of AnnotateImpl: where the counts of each tree start
CountRowPtr(m) ==
  [i \in 1..(Len(m.trees) + 1) |-> SeqSum([k \in 1..(i - 1) |-> Len(m.trees[k])])]

\* a schedule that leaves out the rows that do not divide among the threads
StaticBlockNoRemainder(begin, end, nthread, tid) ==
  LET q == (end - begin) \div nthread
  IN  [lo |-> begin + tid * q, hi |-> begin + (tid + 1) * q]

\* the rows [lo, hi) of the band that schedule(static) gives to thread tid
StaticBlock(begin, end, nthread, tid) ==
  LET n == end - begin
      q == n \div nthread
      t == n % nthread
      lo == begin + (IF tid < t THEN tid * (q + 1) ELSE t * (q + 1) + (tid - t) * q)
  IN  [lo |-> lo, hi |-> lo + (IF tid < t THEN q + 1 ELSE q)]

\* a BranchAnnotator as constructed
NoAnnotator ==
  [pc |-> "constructed", nthread |-> 0, rbegin |-> 0, inst |-> <<>>, counts_tloc |-> <<>>,
   thread |-> <<>>, omp_exception_ |-> <<>>, counts_ |-> <<>>]

\* the reduction and the change of layout that end AnnotateImpl
Reduce(a) ==
  LET count_row_ptr == CountRowPtr(model)
      ntree == Len(model.trees)
      total == count_row_ptr[ntree + 1]
      new_counts == [i \in 1..total |->
                       SeqSum([tid \in 1..a.nthread |-> a.counts_tloc[(tid - 1) * total + i]])]
  IN  [a EXCEPT !.pc = "done",
                !.counts_ = @ \o [i \in 1..ntree |->
                                    [k \in 1..Len(model.trees[i]) |->
                                       new_counts[count_row_ptr[i] + k]]]]

\* the start of one round of the loop of AnnotateImpl: ComputeBranchLooper::Loop
\* allocates inst and ParallelFor hands the rows of the band to the team
EnterBand(a) ==
  IF a.rbegin < dmat.num_row
  THEN LET rend == Min(a.rbegin + ProgressStep(dmat.num_row), dmat.num_row)
       IN  [a EXCEPT !.pc = "region",
                     !.inst = [i \in 1..(a.nthread * dmat.num_col) |-> MissingEntry],
                     !.omp_exception_ = <<>>,
                     !.thread = [tid \in 1..a.nthread |->
                                   LET block == StaticBlock(a.rbegin, rend, a.nthread, tid - 1)
                                   IN  [rid |-> block.lo, hi |-> block.hi,
                                        pc |-> IF block.lo < block.hi THEN "fill" ELSE "joined"]]]
  ELSE Reduce(a)

NthreadChoices == 0..(MaxNumThread + 1)

\* BranchAnnotator::Annotate up to the first parallel region
Annotate(nthread) ==
  /\ annotator.pc = "constructed"
  /\ dmat.kind # "none"
  /\ IF nthread > MaxNumThread
     THEN annotator' = [annotator EXCEPT !.pc = "failed"]
     ELSE LET total == CountRowPtr(model)[Len(model.trees) + 1]
              nt == IF nthread <= 0 THEN MaxNumThread ELSE nthread
          IN  annotator' = EnterBand([annotator EXCEPT
                                        !.nthread = nt,
                                        !.rbegin = 0,
                                        !.counts_tloc = [i \in 1..(total * nt) |-> 0]])
  /\ UNCHANGED <<model, dmat, pfor, predictor, parser, annotation, capi>>
  /\ UNCHANGED compiler_vars

\* the end of an iteration of the parallel loop
NextIteration(th) ==
  IF th.rid + 1 < th.hi THEN [th EXCEPT !.rid = @ + 1, !.pc = "fill"]
  ELSE [th EXCEPT !.pc = "joined"]

\* the columns j of dense row rid the body writes before it stops: all of
\* them, or those before the first NaN the matrix does not declare
DenseStop(rid) ==
  LET nan_missing == isnan(dmat.missing_value)
      bad == {j \in 0..(dmat.num_col - 1) :
                isnan(dmat.data[rid * dmat.num_col + j + 1]) /\ ~nan_missing}
  IN  IF bad = {} THEN dmat.num_col ELSE CHOOSE j \in bad : \A k \in bad : j <= k

\* the entries of inst the body fills for row rid: offsets into the slice of
\* the thread, with their values
FilledEntries(rid) ==
  IF dmat.kind = "dense"
  THEN {<<j, dmat.data[rid * dmat.num_col + j + 1]>> : j \in
          {j \in 0..(DenseStop(rid) - 1) :
             LET v == dmat.data[rid * dmat.num_col + j + 1]
             IN  ~isnan(v) /\ (isnan(dmat.missing_value) \/ ~FEq(v, dmat.missing_value))}}
  ELSE {<<dmat.col_ind[i], dmat.data[i]>> : i \in (dmat.row_ptr[rid + 1] + 1)..dmat.row_ptr[rid + 2]}

\* the first loop of the body: inst[off + j].fvalue = row[j]
AnnotatorFill(tid) ==
  /\ annotator.pc = "region"
  /\ tid + 1 \in DOMAIN annotator.thread
  /\ annotator.thread[tid + 1].pc = "fill"
  /\ LET th == annotator.thread[tid + 1]
         off == dmat.num_col * tid
         filled == FilledEntries(th.rid)
         inst == [i \in DOMAIN annotator.inst |->
                    IF \E e \in filled : off + e[1] + 1 = i
                    THEN FvalueEntry((CHOOSE e \in filled : off + e[1] + 1 = i)[2])
                    ELSE annotator.inst[i]]
         throws == dmat.kind = "dense" /\ DenseStop(th.rid) < dmat.num_col
     IN  annotator' =
           IF throws
           THEN [annotator EXCEPT
                   !.inst = inst,
                   !.omp_exception_ = IF @ = <<>> THEN <<"NaN in the matrix">> ELSE @,
                   !.thread[tid + 1] = NextIteration(th)]
           ELSE [annotator EXCEPT !.inst = inst, !.thread[tid + 1].pc = "traverse"]
  /\ UNCHANGED <<model, dmat, pfor, predictor, parser, annotation, capi>>
  /\ UNCHANGED compiler_vars

\* data[split_index] as Traverse_ reads it through &inst[off]: an index past
\* the slice of the thread is in the slice of the next thread, or past the
\* end of inst
AnnotatorRead(inst, index, garbage) ==
  IF index < Len(inst) THEN inst[index + 1] ELSE garbage

\* the second loop of the body: every tree is traversed
RECURSIVE TraverseTrees(_, _, _, _, _, _)
TraverseTrees(m, tree_id, data, counts_tloc, off2, ub) ==
  IF tree_id = Len(m.trees) THEN counts_tloc
  ELSE LET tree == m.trees[tree_id + 1]
           base == off2 + CountRowPtr(m)[tree_id + 1]
           out_counts == Traverse_(tree, data, 0,
                                   [k \in 1..Len(tree) |-> counts_tloc[base + k]], ub)
       IN  TraverseTrees(m, tree_id + 1, data,
                         [i \in DOMAIN counts_tloc |->
                            IF i > base /\ i <= base + Len(tree)
                            THEN out_counts[i - base] ELSE counts_tloc[i]],
                         off2, ub)

AnnotatorTraverse(tid) ==
  /\ annotator.pc = "region"
  /\ tid + 1 \in DOMAIN annotator.thread
  /\ annotator.thread[tid + 1].pc = "traverse"
  /\ \E garbage \in OutOfBoundsEntries :
       LET off == dmat.num_col * tid
           off2 == CountRowPtr(model)[Len(model.trees) + 1] * tid
           data == [f \in 1..model.num_feature |->
                      AnnotatorRead(annotator.inst, off + f - 1, garbage)]
       IN  \E ub \in UbChoices(data) :
             annotator' = [annotator EXCEPT
                             !.counts_tloc = TraverseTrees(model, 0, data, @, off2, ub),
                             !.thread[tid + 1].pc = "reset"]
  /\ UNCHANGED <<model, dmat, pfor, predictor, parser, annotation, capi>>
  /\ UNCHANGED compiler_vars

\* the third loop of the body: inst[off + j].missing = -1
AnnotatorReset(tid) ==
  /\ annotator.pc = "region"
  /\ tid + 1 \in DOMAIN annotator.thread
  /\ annotator.thread[tid + 1].pc = "reset"
  /\ LET th == annotator.thread[tid + 1]
         off == dmat.num_col * tid
         touched == IF dmat.kind = "dense" THEN 0..(dmat.num_col - 1)
                    ELSE {e[1] : e \in FilledEntries(th.rid)}
     IN  annotator' = [annotator EXCEPT
                         !.inst = [i \in DOMAIN @ |->
                                     IF (i - 1 - off) \in touched THEN MissingEntry ELSE @[i]],
                         !.thread[tid + 1] = NextIteration(th)]
  /\ UNCHANGED <<model, dmat, pfor, predictor, parser, annotation, capi>>
  /\ UNCHANGED compiler_vars

\* the end of the parallel region: exc.Rethrow(), then the next round of the
\* loop of AnnotateImpl or, after the last round, the reduction
AnnotatorJoin ==
  /\ annotator.pc = "region"
  /\ \A i \in DOMAIN annotator.thread : annotator.thread[i].pc = "joined"
  /\ annotator' =
       IF annotator.omp_exception_ # <<>>
       THEN [annotator EXCEPT !.pc = "failed"]
       ELSE EnterBand([annotator EXCEPT !.rbegin = @ + ProgressStep(dmat.num_row)])
  /\ UNCHANGED <<model, dmat, pfor, predictor, parser, annotation, capi>>
  /\ UNCHANGED compiler_vars

(***************************************************************************)
(* threading_utils/parallel_for.h and omp_exception.h.  The body func is   *)
(* given by the set fails of the indices at which it throws (a             *)
(* tl2cgen::Error or another std::exception); calls counts its             *)
(* invocations, index by index.                                            *)
(***************************************************************************)
\* bound: the indices a loop can range over are 0..MaxIndex
MaxIndex == 3

Indices == 0..MaxIndex

Schedules == {"kAuto", "kDynamic", "kStatic", "kGuided"}

\* ParallelSchedule::Auto(), Dynamic(n), Static(n) and Guided()
ChunkChoices(sched) == IF sched \in {"kDynamic", "kStatic"} THEN {0, 1, 2} ELSE {0}

\* no loop is running
NoLoop ==
  [pc |-> "idle", begin |-> 0, end |-> 0, nthread |-> 0, sched |-> "kAuto", chunk |-> 0,
   fails |-> {}, next |-> 0, thread |-> <<>>, calls |-> [i \in Indices |-> 0],
   omp_exception_ |-> <<>>, rethrown |-> <<>>]

\* a thread of the team before it is given its first iterations
NewThread == [pc |-> "dispatch", i |-> 0, hi |-> 0, round |-> 0]

\* ParallelFor up to the start of the parallel region
ParallelFor(begin, end, nthread, sched, chunk, fails) ==
  /\ pfor.pc = "idle"
  /\ pfor' = IF begin = end
             THEN [pfor EXCEPT !.pc = "returned", !.begin = begin, !.end = end,
                               !.nthread = nthread, !.sched = sched, !.chunk = chunk,
                               !.fails = fails]
             ELSE [pfor EXCEPT !.pc = "region", !.begin = begin, !.end = end,
                               !.nthread = nthread, !.sched = sched, !.chunk = chunk,
                               !.fails = fails, !.next = begin,
                               !.thread = [tid \in 1..nthread |-> NewThread]]
  /\ UNCHANGED <<model, dmat, annotator, predictor, parser, annotation, capi>>
  /\ UNCHANGED compiler_vars

\* the division rounded down
GuidedChunkRoundedDown(left, nthread) == left \div nthread

\* the size of the next chunk of schedule(guided): the iterations left,
\* divided among the team and rounded up
GuidedChunk(left, nthread) == (left + nthread - 1) \div nthread

\* the iterations [lo, hi) the loop construct hands thread tid when it asks
\* for more; lo = hi when there are none left for it.  Without a schedule
\* clause (kAuto) the loop is divided as by schedule(static).
NextChunk(p, tid) ==
  LET th == p.thread[tid + 1]
      static_chunk ==
        LET lo == Min(p.begin + (th.round * p.nthread + tid) * p.chunk, p.end)
        IN  [lo |-> lo, hi |-> Min(lo + p.chunk, p.end)]
      shared(size) == [lo |-> p.next, hi |-> Min(p.next + size, p.end)]
  IN  CASE p.sched = "kStatic" /\ p.chunk > 0 -> static_chunk
        [] p.sched \in {"kStatic", "kAuto"} /\ p.chunk = 0 ->
             IF th.round = 0 THEN StaticBlock(p.begin, p.end, p.nthread, tid)
             ELSE [lo |-> p.end, hi |-> p.end]
        [] p.sched = "kDynamic" -> shared(IF p.chunk = 0 THEN 1 ELSE p.chunk)
        [] p.sched = "kGuided" -> shared(GuidedChunk(p.end - p.next, p.nthread))
        [] OTHER -> [lo |-> p.end, hi |-> p.end]

\* thread tid asks the loop construct for iterations
PForDispatch(tid) ==
  /\ pfor.pc = "region"
  /\ tid + 1 \in DOMAIN pfor.thread
  /\ pfor.thread[tid + 1].pc = "dispatch"
  /\ LET chunk == NextChunk(pfor, tid)
     IN  pfor' = IF chunk.lo < chunk.hi
                 THEN [pfor EXCEPT
                         !.next = IF pfor.sched \in {"kDynamic", "kGuided"} THEN chunk.hi ELSE @,
                         !.thread[tid + 1] = [pc |-> "run", i |-> chunk.lo, hi |-> chunk.hi,
                                              round |-> @.round + 1]]
                 ELSE [pfor EXCEPT !.thread[tid + 1].pc = "joined"]
  /\ UNCHANGED <<model, dmat, annotator, predictor, parser, annotation, capi>>
  /\ UNCHANGED compiler_vars

\* the thread after exc.Run returned: the next iteration of its chunk, or
\* the next chunk
AfterRun(th) ==
  IF th.i + 1 < th.hi THEN [th EXCEPT !.i = @ + 1, !.pc = "run"]
  ELSE [th EXCEPT !.pc = "dispatch"]

\* OMPException::Run: the try block, f(params...)
PForRun(tid) ==
  /\ pfor.pc = "region"
  /\ tid + 1 \in DOMAIN pfor.thread
  /\ pfor.thread[tid + 1].pc = "run"
  /\ LET th == pfor.thread[tid + 1]
     IN  pfor' = [pfor EXCEPT
                    !.calls[th.i] = @ + 1,
                    !.thread[tid + 1] =
                      IF th.i \in pfor.fails THEN [th EXCEPT !.pc = "catch"] ELSE AfterRun(th)]
  /\ UNCHANGED <<model, dmat, annotator, predictor, parser, annotation, capi>>
  /\ UNCHANGED compiler_vars

\* a catch block that stores whatever it caught
StoreExceptionOverwriting(omp_exception_, caught) == <<caught>>

\* if (!omp_exception_) omp_exception_ = std::current_exception()
StoreException(omp_exception_, caught) ==
  IF omp_exception_ = <<>> THEN <<caught>> ELSE omp_exception_

\* OMPException::Run: a catch block, under the mutex.  The exception is
\* named by the index whose iteration threw it.
PForCatch(tid) ==
  /\ pfor.pc = "region"
  /\ tid + 1 \in DOMAIN pfor.thread
  /\ pfor.thread[tid + 1].pc = "catch"
  /\ LET th == pfor.thread[tid + 1]
     IN  pfor' = [pfor EXCEPT
                    !.omp_exception_ = StoreException(@, th.i),
                    !.thread[tid + 1] = AfterRun(th)]
  /\ UNCHANGED <<model, dmat, annotator, predictor, parser, annotation, capi>>
  /\ UNCHANGED compiler_vars

\* the end of the parallel region and OMPException::Rethrow
PForRethrow ==
  /\ pfor.pc = "region"
  /\ \A i \in DOMAIN pfor.thread : pfor.thread[i].pc = "joined"
  /\ pfor' = IF pfor.omp_exception_ # <<>>
             THEN [pfor EXCEPT !.pc = "thrown", !.rethrown = pfor.omp_exception_]
             ELSE [pfor EXCEPT !.pc = "returned"]
  /\ UNCHANGED <<model, dmat, annotator, predictor, parser, annotation, capi>>
  /\ UNCHANGED compiler_vars

(***************************************************************************)
(* predictor.cc.  A worker is one iteration of the loop of                 *)
(* Predictor::PredictBatch: worker w runs ApplyBatch on the rows           *)
(* [row_ptr[w], row_ptr[w + 1]) with an inst of its own.                   *)
(***************************************************************************)
\* bound: the matrices given to the predictor have 0..MaxPredictRow rows
MaxPredictRow == 4

\* a split that gives every row left over to the last worker
SplitBatchRemainderLast(num_row, split_factor) ==
  LET portion == num_row \div split_factor
  IN  [i \in 1..(split_factor + 1) |->
         IF i = split_factor + 1 THEN num_row ELSE (i - 1) * portion]

\* SplitBatch, for split_factor <= num_row
SplitBatch(num_row, split_factor) ==
  LET portion == num_row \div split_factor
      remainder == num_row % split_factor
      workload == [i \in 1..split_factor |-> IF i - 1 < remainder THEN portion + 1 ELSE portion]
  IN  [i \in 1..(split_factor + 1) |-> SeqSum([k \in 1..(i - 1) |-> workload[k]])]

\* the matrices predict_batch is given: narrower than the model, as wide,
\* and wider
PredictorMatrices ==
  {DenseDMatrix(r, c, mv) : r \in 0..MaxPredictRow, c \in {1, NumFeature, NumFeature + 1},
                            mv \in MissingValues}
    \cup {CSRDMatrix(r, c) : r \in 0..MaxPredictRow, c \in {1, NumFeature, NumFeature + 1}}

\* the models the loaded library was compiled from: numerical tests only
PredictorModels ==
  {ScalarModel(<<NumStump(0, TRUE, "kLT", Fine(1))>>),
   ScalarModel(<<NumStump(2, TRUE, "kLE", 0), NumStump(0, FALSE, "kLT", Fine(1))>>)}

\* the leaf of tree that the row data reaches; an entry that is not missing
\* is compared by its value
RECURSIVE LeafValue(_, _, _)
LeafValue(tree, data, nid) ==
  LET n == tree[nid + 1]
  IN  IF n.is_leaf THEN n.leaf_value
      ELSE LET entry == data[n.split_index + 1]
               left == IF entry.tag = "missing" THEN n.default_left
                       ELSE CompareWithOp(entry.v, n.op, n.threshold)
           IN  LeafValue(tree, data, IF left THEN n.left_child ELSE n.right_child)

\* the predict function of the loaded library: the output it writes and the
\* row it leaves behind.  A library compiled with quantize > 0 overwrites
\* every entry that is not missing by its qvalue.
Predict(m, data, quantized) ==
  [out |-> <<SeqSum([i \in 1..Len(m.trees) |-> LeafValue(m.trees[i], data, 0)])>>,
   data |-> [i \in DOMAIN data |->
               IF quantized /\ data[i].tag # "missing" THEN QvalueEntry(data[i].v)
               ELSE data[i]]]

\* a Predictor as constructed: thread_config_ and the loaded library
NewPredictor(nthread, quantized) ==
  [pc |-> "loaded", nthread |-> nthread, quantized |-> quantized, row_ptr |-> <<>>,
   worker |-> <<>>, out_result |-> <<>>, writers |-> <<>>, omp_exception_ |-> <<>>]

NoPredictor == NewPredictor(0, FALSE)

\* Predictor::PredictBatch up to the start of the parallel region
PredictBatch ==
  /\ predictor.pc = "loaded"
  /\ predictor.nthread > 0
  /\ predictor' =
       IF dmat.num_row = 0
       THEN [predictor EXCEPT !.pc = "done"]
       ELSE LET nthread == Min(predictor.nthread, dmat.num_row)
                row_ptr == SplitBatch(dmat.num_row, nthread)
            IN  [predictor EXCEPT
                   !.pc = "region",
                   !.row_ptr = row_ptr,
                   !.out_result = [r \in 1..dmat.num_row |-> <<>>],
                   !.writers = [r \in 1..dmat.num_row |-> {}],
                   !.worker = [w \in 1..nthread |->
                                 [pc |-> "start", rid |-> row_ptr[w], rend |-> row_ptr[w + 1],
                                  inst |-> <<>>]]]
  /\ UNCHANGED <<model, dmat, annotator, pfor, parser, annotation, capi>>
  /\ UNCHANGED compiler_vars

\* PredictFunctionPreset::PredictBatch and the head of ApplyBatch: the
\* checks and the allocation of inst
WorkerStart(w) ==
  /\ predictor.pc = "region"
  /\ w + 1 \in DOMAIN predictor.worker
  /\ predictor.worker[w + 1].pc = "start"
  /\ LET wk == predictor.worker[w + 1]
         ok == /\ wk.rid < wk.rend
               /\ wk.rend <= dmat.num_row
               /\ dmat.num_col <= model.num_feature
     IN  predictor' =
           IF ok
           THEN [predictor EXCEPT
                   !.worker[w + 1].pc = "fill",
                   !.worker[w + 1].inst =
                     [i \in 1..(IF dmat.num_col > model.num_feature THEN dmat.num_col
                                ELSE model.num_feature) |-> MissingEntry]]
           ELSE [predictor EXCEPT
                   !.worker[w + 1].pc = "joined",
                   !.omp_exception_ = StoreException(@, w)]
  /\ UNCHANGED <<model, dmat, annotator, pfor, parser, annotation, capi>>
  /\ UNCHANGED compiler_vars

\* the first loop of the body of ApplyBatch: inst[j].fvalue = row[j]
WorkerFill(w) ==
  /\ predictor.pc = "region"
  /\ w + 1 \in DOMAIN predictor.worker
  /\ predictor.worker[w + 1].pc = "fill"
  /\ LET wk == predictor.worker[w + 1]
         filled == FilledEntries(wk.rid)
         inst == [i \in DOMAIN wk.inst |->
                    IF \E e \in filled : e[1] + 1 = i
                    THEN FvalueEntry((CHOOSE e \in filled : e[1] + 1 = i)[2])
                    ELSE wk.inst[i]]
         throws == dmat.kind = "dense" /\ DenseStop(wk.rid) < dmat.num_col
     IN  predictor' =
           IF throws
           THEN [predictor EXCEPT
                   !.worker[w + 1].inst = inst,
                   !.worker[w + 1].pc = "joined",
                   !.omp_exception_ = StoreException(@, w)]
           ELSE [predictor EXCEPT
                   !.worker[w + 1].inst = inst,
                   !.worker[w + 1].pc = "predict"]
  /\ UNCHANGED <<model, dmat, annotator, pfor, parser, annotation, capi>>
  /\ UNCHANGED compiler_vars

\* func(inst.data(), pred_margin, output_slice.data_handle())
WorkerPredict(w) ==
  /\ predictor.pc = "region"
  /\ w + 1 \in DOMAIN predictor.worker
  /\ predictor.worker[w + 1].pc = "predict"
  /\ LET wk == predictor.worker[w + 1]
         result == Predict(model, wk.inst, predictor.quantized)
     IN  predictor' = [predictor EXCEPT
                         !.out_result[wk.rid + 1] = result.out,
                         !.writers[wk.rid + 1] = @ \cup {w},
                         !.worker[w + 1].inst = result.data,
                         !.worker[w + 1].pc = "reset"]
  /\ UNCHANGED <<model, dmat, annotator, pfor, parser, annotation, capi>>
  /\ UNCHANGED compiler_vars

\* the columns no row resets
TouchedColumnsNone(rid) == {}

\* the columns the last loop of the body of ApplyBatch resets: every column
\* of a dense matrix, the columns present in the row of a CSR matrix
TouchedColumns(rid) ==
  IF dmat.kind = "dense" THEN 0..(dmat.num_col - 1)
  ELSE {dmat.col_ind[i] : i \in (dmat.row_ptr[rid + 1] + 1)..dmat.row_ptr[rid + 2]}

\* the last loop of the body of ApplyBatch: inst[j].missing = -1
WorkerReset(w) ==
  /\ predictor.pc = "region"
  /\ w + 1 \in DOMAIN predictor.worker
  /\ predictor.worker[w + 1].pc = "reset"
  /\ LET wk == predictor.worker[w + 1]
         touched == TouchedColumns(wk.rid)
     IN  predictor' = [predictor EXCEPT
                         !.worker[w + 1].inst =
                           [i \in DOMAIN @ |-> IF (i - 1) \in touched THEN MissingEntry ELSE @[i]],
                         !.worker[w + 1].rid = @ + 1,
                         !.worker[w + 1].pc = IF wk.rid + 1 < wk.rend THEN "fill" ELSE "joined"]
  /\ UNCHANGED <<model, dmat, annotator, pfor, parser, annotation, capi>>
  /\ UNCHANGED compiler_vars

\* the end of the parallel region of Predictor::PredictBatch
PredictJoin ==
  /\ predictor.pc = "region"
  /\ \A i \in DOMAIN predictor.worker : predictor.worker[i].pc = "joined"
  /\ predictor' = [predictor EXCEPT
                     !.pc = IF predictor.omp_exception_ # <<>> THEN "failed" ELSE "done"]
  /\ UNCHANGED <<model, dmat, annotator, pfor, parser, annotation, capi>>
  /\ UNCHANGED compiler_vars

(***************************************************************************)
(* compiler_param.cc and compiler.cc: CompilerParam::ParseFromJSON.  The   *)
(* JSON text is a sequence of items: the characters of its punctuation and *)
(* of its numbers, one by one, and its string literals, each as a whole;   *)
(* white space is left out.  rapidjson::Document::Parse is the parser      *)
(* below.                                                                  *)
(***************************************************************************)
\* bound: the objects given to the parser have 0..MaxMember members
MaxMember == 2

Ch(c) == [k |-> "char", s |-> c]
Lit(s) == [k |-> "string", s |-> s]

Digits == <<"0", "1", "2", "3", "4", "5", "6", "7", "8", "9">>
IsDigit(item) == item.k = "char" /\ item.s \in Range(Digits)
DigitValue(item) == (CHOOSE d \in DOMAIN Digits : Digits[d] = item.s) - 1
IsChar(t, p, c) == p <= Len(t) /\ t[p] = Ch(c)

\* the text of a JSON number and of a JSON string
RECURSIVE NumberText(_)
NumberText(s) == IF s = <<>> THEN <<>> ELSE <<Ch(Head(s))>> \o NumberText(Tail(s))

\* the end of the run of digits that starts at p
RECURSIVE DigitsEnd(_, _)
DigitsEnd(t, p) == IF p <= Len(t) /\ IsDigit(t[p]) THEN DigitsEnd(t, p + 1) ELSE p

\* the int the digits t[p..q-1] stand for, negated when minus; fits is FALSE
\* when the number is outside [INT_MIN, INT_MAX]
RECURSIVE IntOfDigits(_, _, _, _, _)
IntOfDigits(t, p, q, minus, acc) ==
  IF p = q THEN [fits |-> TRUE, v |-> acc]
  ELSE LET d == DigitValue(t[p])
           room == IF minus
                   THEN acc >= -(IF d = 0 THEN INT_MAX \div 10 ELSE (INT_MAX - d + 1) \div 10)
                   ELSE acc <= (INT_MAX - d) \div 10
       IN  IF ~room THEN [fits |-> FALSE, v |-> 0]
           ELSE IntOfDigits(t, p + 1, q, minus, IF minus THEN acc * 10 - d ELSE acc * 10 + d)

\* bound of the whole part of a Double of the model
MaxWhole == 1000

\* std::uint64_t: four limbs of 16 bits, the least significant first
LIMB == 2 ^ 16
U64(l3, l2, l1, l0) == <<l0, l1, l2, l3>>
U64Zero == U64(0, 0, 0, 0)

\* limbs * 10 + d, and whether it is still a uint64
U64MulAdd(limbs, d) ==
  LET c1 == limbs[1] * 10 + d
      c2 == limbs[2] * 10 + c1 \div LIMB
      c3 == limbs[3] * 10 + c2 \div LIMB
      c4 == limbs[4] * 10 + c3 \div LIMB
  IN  [fits |-> c4 < LIMB, limbs |-> <<c1 % LIMB, c2 % LIMB, c3 % LIMB, c4 % LIMB>>]

\* limbs / 10 and limbs % 10
U64DivMod(limbs) ==
  LET c4 == limbs[4]
      c3 == (c4 % 10) * LIMB + limbs[3]
      c2 == (c3 % 10) * LIMB + limbs[2]
      c1 == (c2 % 10) * LIMB + limbs[1]
  IN  [quot |-> <<c1 \div 10, c2 \div 10, c3 \div 10, c4 \div 10>>, rem |-> c1 % 10]

\* the uint64 the digits t[p..q-1] stand for
RECURSIVE U64OfDigits(_, _, _, _)
U64OfDigits(t, p, q, acc) ==
  IF p = q \/ ~acc.fits THEN acc
  ELSE U64OfDigits(t, p + 1, q, U64MulAdd(acc.limbs, DigitValue(t[p])))

\* the digits after the point, read as thousandths
Thousandths(t, p, q) ==
  LET digit(i) == IF p + i < q THEN DigitValue(t[p + i]) ELSE 0
  IN  digit(0) * 100 + digit(1) * 10 + digit(2)

\* ParseNumber: -? (0 | [1-9][0-9]*) (. [0-9]+)?.  A number without a
\* fraction that fits int is an Int (IsInt()); a number with a fraction is a
\* Double, held in thousandths.  u64 is the value of a number that is a
\* Uint64 (IsUint64()): no sign, no fraction, below 2^64.
ParseNumber(t, p) ==
  LET minus == IsChar(t, p, "-")
      p1 == IF minus THEN p + 1 ELSE p
      p2 == IF IsChar(t, p1, "0") THEN p1 + 1 ELSE DigitsEnd(t, p1)
      fraction == IsChar(t, p2, ".")
      p3 == IF fraction THEN DigitsEnd(t, p2 + 1) ELSE p2
      whole == IntOfDigits(t, p1, p2, minus, 0)
      capped == IF ~whole.fits \/ Abs(whole.v) > MaxWhole
                THEN (IF minus THEN -MaxWhole ELSE MaxWhole) ELSE whole.v
      unsigned == U64OfDigits(t, p1, p2, [fits |-> TRUE, limbs |-> U64Zero])
      u64 == IF minus \/ fraction \/ ~unsigned.fits THEN <<>> ELSE <<unsigned.limbs>>
  IN  IF p2 = p1 \/ (fraction /\ p3 = p2 + 1)
      THEN [ok |-> FALSE, v |-> [type |-> "null"], p |-> p]
      ELSE IF fraction
      THEN [ok |-> TRUE, p |-> p3,
            v |-> [type |-> "double", u64 |-> u64,
                   v |-> capped * 1000
                           + (IF minus THEN -1 ELSE 1) * Thousandths(t, p2 + 1, p3)]]
      ELSE IF ~whole.fits
      THEN [ok |-> TRUE, p |-> p2, v |-> [type |-> "int64", u64 |-> u64, v |-> 0]]
      ELSE [ok |-> TRUE, p |-> p2, v |-> [type |-> "int", u64 |-> u64, v |-> whole.v]]

ParseFailure(p) == [ok |-> FALSE, v |-> [type |-> "null"], p |-> p]

\* ParseValue, ParseObject and ParseArray of the rapidjson reader; the
\* result is the value and the position after it
RECURSIVE ParseValue(_, _)
RECURSIVE ParseMembers(_, _, _)
RECURSIVE ParseElements(_, _, _)
ParseValue(t, p) ==
  IF p > Len(t) THEN ParseFailure(p)
  ELSE IF t[p].k = "string" THEN [ok |-> TRUE, v |-> [type |-> "string", v |-> t[p].s], p |-> p + 1]
  ELSE IF t[p] = Ch("{")
  THEN IF IsChar(t, p + 1, "}")
       THEN [ok |-> TRUE, v |-> [type |-> "object", v |-> <<>>], p |-> p + 2]
       ELSE ParseMembers(t, p + 1, <<>>)
  ELSE IF t[p] = Ch("[")
  THEN IF IsChar(t, p + 1, "]")
       THEN [ok |-> TRUE, v |-> [type |-> "array", v |-> <<>>], p |-> p + 2]
       ELSE ParseElements(t, p + 1, <<>>)
  ELSE IF t[p] = Ch("-") \/ IsDigit(t[p]) THEN ParseNumber(t, p)
  ELSE ParseFailure(p)

\* "name" : value, then "," and the next member, or "}"
ParseMembers(t, p, members) ==
  IF ~(p <= Len(t) /\ t[p].k = "string" /\ IsChar(t, p + 1, ":")) THEN ParseFailure(p)
  ELSE LET value == ParseValue(t, p + 2)
           all == Append(members, [name |-> t[p].s, value |-> value.v])
       IN  IF ~value.ok THEN ParseFailure(value.p)
           ELSE IF IsChar(t, value.p, ",") THEN ParseMembers(t, value.p + 1, all)
           ELSE IF IsChar(t, value.p, "}")
           THEN [ok |-> TRUE, v |-> [type |-> "object", v |-> all], p |-> value.p + 1]
           ELSE ParseFailure(value.p)

ParseElements(t, p, elements) ==
  LET value == ParseValue(t, p)
      all == Append(elements, value.v)
  IN  IF ~value.ok THEN ParseFailure(value.p)
      ELSE IF IsChar(t, value.p, ",") THEN ParseElements(t, value.p + 1, all)
      ELSE IF IsChar(t, value.p, "]")
      THEN [ok |-> TRUE, v |-> [type |-> "array", v |-> all], p |-> value.p + 1]
      ELSE ParseFailure(value.p)

\* rapidjson::Document::Parse: the document holds the value of the text when
\* the text is one JSON value and nothing else, and Null otherwise
DocumentParse(t) ==
  LET root == ParseValue(t, 1)
  IN  IF root.ok /\ root.p = Len(t) + 1 THEN root.v ELSE [type |-> "null"]

\* the members a parameter text is made of.  Each comes with what it is by
\* the table of the options: "ok" (a recognized key with a value of its type
\* and range; s or v is the value), "malformed" (no JSON), "unknown" (no
\* key of the table), "wrong type" or "negative".
Member(name, value, is, s, v) ==
  [name |-> name, text |-> <<Lit(name), Ch(":")>> \o value, is |-> is, s |-> s, v |-> v]

MemberCatalogue ==
  {Member("quantize", NumberText(<<"1">>), "ok", "", 1),
   Member("quantize", NumberText(<<"-", "1">>), "negative", "", 0),
   Member("quantize", <<Lit("bad_type")>>, "wrong type", "", 0),
   Member("quantize", NumberText(<<"2", "1", "4", "7", "4", "8", "3", "6", "4", "8">>),
          "wrong type", "", 0),
   Member("parallel_comp", NumberText(<<"1", "0", "0">>), "ok", "", 100),
   Member("parallel_comp", NumberText(<<"-", "1">>), "negative", "", 0),
   Member("parallel_comp", NumberText(<<"1", "3">>) \o <<Ch("b"), Ch("a"), Ch("d")>>,
          "malformed", "", 0),
   Member("parallel_comp", NumberText(<<"1", ".", "0">>), "wrong type", "", 0),
   Member("verbose", NumberText(<<"3">>), "ok", "", 3),
   Member("verbose", NumberText(<<"-", "2">>), "ok", "", -2),
   Member("verbose", <<Ch("[")>> \o NumberText(<<"1">>) \o <<Ch("]")>>, "wrong type", "", 0),
   Member("native_lib_name", <<Lit("mylib")>>, "ok", "mylib", 0),
   Member("native_lib_name", NumberText(<<"-", "1", "0", ".", "0">>), "wrong type", "", 0),
   Member("annotate_in", <<Lit("annotation.json")>>, "ok", "annotation.json", 0),
   Member("annotate_in", NumberText(<<"0">>), "wrong type", "", 0),
   Member("nonexistent", NumberText(<<"0", ".", "3">>), "unknown", "", 0),
   Member("extra_object",
          <<Ch("{"), Lit("extra"), Ch(":")>> \o NumberText(<<"3", "0">>) \o <<Ch("}")>>,
          "unknown", "", 0),
   Member("code_folding_req", NumberText(<<"1", ".", "5">>), "unknown", "", 0),
   Member("dump_array_as_elf", NumberText(<<"1">>), "unknown", "", 0)}

RECURSIVE Joined(_)
Joined(members) ==
  IF members = <<>> THEN <<>>
  ELSE IF Len(members) = 1 THEN members[1].text
  ELSE members[1].text \o <<Ch(",")>> \o Joined(Tail(members))

ObjectText(members) == <<Ch("{")>> \o Joined(members) \o <<Ch("}")>>

\* texts that are no JSON object
NonObjectTexts ==
  {<<>>,
   NumberText(<<"3">>),
   <<Lit("quantize")>>,
   <<Ch("[")>> \o NumberText(<<"1">>) \o <<Ch("]")>>,
   <<Ch("{"), Lit("quantize"), Ch(":")>> \o NumberText(<<"1">>),
   <<Ch("{"), Lit("quantize"), Ch(":")>> \o NumberText(<<"1">>) \o <<Ch(","), Ch("}")>>,
   <<Ch("{"), Lit("quantize"), Ch("}")>>,
   <<Ch("{"), Ch("}"), Ch("}")>>,
   <<Ch("{"), Lit("quantize"), Ch(":")>> \o NumberText(<<"0", "1">>) \o <<Ch("}")>>}

\* the texts handed to ParseFromJSON, each with the members it was written
\* from (object = FALSE: it was not written as an object)
ParamInputs ==
  {[object |-> TRUE, members |-> members, text |-> ObjectText(members)] :
     members \in SeqsUpTo(MemberCatalogue, MaxMember)}
    \cup {[object |-> FALSE, members |-> <<>>, text |-> text] : text \in NonObjectTexts}

\* the two definitions of CompilerParam::ParseFromJSON
ParserVariants == {"compiler_param.cc", "compiler.cc"}

\* what an int that was never assigned can hold
IndeterminateInts == {0, -1, 7}

\* CompilerParam param; of compiler_param.cc: the struct has no default
\* member initializers, so the strings are empty and the ints indeterminate
DefaultInitialized(garbage) ==
  [annotate_in |-> "", quantize |-> garbage, parallel_comp |-> garbage, verbose |-> garbage,
   native_lib_name |-> "", code_folding_req |-> garbage, dump_array_as_elf |-> garbage]

\* the default values compiler.cc assigns
DefaultValues ==
  [annotate_in |-> "NULL", quantize |-> 0, parallel_comp |-> 0, verbose |-> 0,
   native_lib_name |-> "predictor", code_folding_req |-> PosInf, dump_array_as_elf |-> 0]

StringKeys == {"annotate_in", "native_lib_name"}
IntKeys(variant) ==
  {"quantize", "parallel_comp", "verbose"}
    \cup (IF variant = "compiler.cc" THEN {"dump_array_as_elf"} ELSE {})
DoubleKeys(variant) == IF variant = "compiler.cc" THEN {"code_folding_req"} ELSE {}
NonNegativeKeys == {"quantize", "parallel_comp", "code_folding_req", "dump_array_as_elf"}

Thrown(message, key) == [ok |-> FALSE, error |-> message, key |-> key]

\* a range check that lets every value through
InRangeAlways(key, v) == TRUE

\* TL2CGEN_CHECK_GE(param.<key>, 0), for the keys that have the check
InRange(key, v) == key \in NonNegativeKeys => v >= 0

\* one round of the loop over doc.GetObject(): st is the param so far, or
\* the error thrown
ParseMember(variant, st, e) ==
  LET key == e.name
      expected == IF key \in StringKeys THEN "string"
                  ELSE IF key \in IntKeys(variant) THEN "int"
                  ELSE IF key \in DoubleKeys(variant) THEN "double"
                  ELSE "none"
  IN  IF ~st.ok THEN st
      ELSE IF expected = "none" THEN Thrown("Unrecognized key '<key>' in JSON", key)
      ELSE IF e.value.type # expected
      THEN Thrown(CASE expected = "string" -> "Expected a string for '<key>'"
                    [] expected = "int" -> "Expected an integer for '<key>'"
                    [] OTHER -> "Expected a floating-point decimal for '<key>'", key)
      ELSE IF ~InRange(key, e.value.v) THEN Thrown("'<key>' must be 0 or greater", key)
      ELSE [st EXCEPT !.param = [f \in DOMAIN @ |-> IF f = key THEN e.value.v ELSE @[f]]]

RECURSIVE ParseMembersOfDoc(_, _, _, _)
ParseMembersOfDoc(variant, st, members, k) ==
  IF k > Len(members) THEN st
  ELSE ParseMembersOfDoc(variant, ParseMember(variant, st, members[k]), members, k + 1)

\* CompilerParam::ParseFromJSON; initial is the param before the text is read
ParseFromJSONImpl(variant, initial, text) ==
  LET doc == DocumentParse(text)
  IN  IF doc.type # "object" THEN Thrown("Got an invalid JSON string", "")
      ELSE ParseMembersOfDoc(variant, [ok |-> TRUE, param |-> initial], doc.v, 1)

\* no text has been parsed
NoParser ==
  [pc |-> "idle", variant |-> "compiler_param.cc",
   given |-> [object |-> FALSE, members |-> <<>>, text |-> <<>>],
   result |-> Thrown("", "")]

ParseFromJSON(variant) ==
  /\ parser.pc = "input"
  /\ \E garbage \in IndeterminateInts :
       parser' = [parser EXCEPT
                    !.pc = "parsed",
                    !.variant = variant,
                    !.result = ParseFromJSONImpl(
                                 variant,
                                 IF variant = "compiler.cc" THEN DefaultValues
                                 ELSE DefaultInitialized(garbage),
                                 parser.given.text)]
  /\ UNCHANGED <<model, dmat, annotator, pfor, predictor, annotation, capi>>
  /\ UNCHANGED compiler_vars

(***************************************************************************)
(* annotator.cc: BranchAnnotator::Save and BranchAnnotator::Load.  The     *)
(* stream holds a JSON text, written as above.                             *)
(***************************************************************************)
\* bounds: counts_ has 0..MaxCountTree rows of 0..MaxCountNode entries
MaxCountTree == 2
MaxCountNode == 2

\* the entries counts_ is filled with
CountCycle ==
  <<U64Zero, U64(0, 0, 0, 9), U64(0, 0, 0, 10), U64(0, 0, 0, LIMB - 1), U64(0, 0, 1, 0),
    U64(0, 1, 0, 0), U64(0, 0, LIMB \div 2, 0), U64(LIMB \div 2, 0, 0, 0),
    U64(LIMB - 1, LIMB - 1, LIMB - 1, LIMB - 1)>>

RECURSIVE CountsOfShape(_, _)
CountsOfShape(shape, from) ==
  IF shape = <<>> THEN <<>>
  ELSE <<[k \in 1..Head(shape) |-> CountCycle[((from + k) % Len(CountCycle)) + 1]]>>
         \o CountsOfShape(Tail(shape), from + Head(shape))

CountsChoices ==
  {CountsOfShape(shape, from) :
     shape \in SeqsUpTo(0..MaxCountNode, MaxCountTree), from \in 0..(Len(CountCycle) - 1)}

\* the decimal digits of e, none for 0
RECURSIVE U64Digits(_)
U64Digits(e) ==
  IF e = U64Zero THEN <<>>
  ELSE LET dm == U64DivMod(e)
       IN  U64Digits(dm.quot) \o <<Ch(Digits[dm.rem + 1])>>

\* a writer that writes no digit for 0
WriterUint64NoZero(e) == U64Digits(e)

\* rapidjson::Writer::Uint64
WriterUint64(e) == IF e = U64Zero THEN <<Ch("0")>> ELSE U64Digits(e)

\* the values of one array, with the commas the writer puts between them
RECURSIVE WriteValues(_)
WriteValues(texts) ==
  IF texts = <<>> THEN <<>>
  ELSE IF Len(texts) = 1 THEN texts[1]
  ELSE texts[1] \o <<Ch(",")>> \o WriteValues(Tail(texts))

WriteArray(texts) == <<Ch("[")>> \o WriteValues(texts) \o <<Ch("]")>>

\* the text BranchAnnotator::Save writes
SaveText(counts_) ==
  WriteArray([i \in DOMAIN counts_ |->
                WriteArray([k \in DOMAIN counts_[i] |-> WriterUint64(counts_[i][k])])])

\* BranchAnnotator::Load on a text: the new counts_, or the error.  For an
\* element that is no Uint64, GetUint64() fails its assertion.
LoadText(text) ==
  LET doc == DocumentParse(text)
      err_msg == "JSON file must contain a list of lists of integers"
  IN  IF doc.type # "array" THEN [ok |-> FALSE, error |-> err_msg, counts_ |-> <<>>]
      ELSE IF \E i \in DOMAIN doc.v : doc.v[i].type # "array"
      THEN [ok |-> FALSE, error |-> err_msg, counts_ |-> <<>>]
      ELSE IF \E i \in DOMAIN doc.v : \E k \in DOMAIN doc.v[i].v :
                doc.v[i].v[k].type \notin {"int", "int64"} \/ doc.v[i].v[k].u64 = <<>>
      THEN [ok |-> FALSE, error |-> "GetUint64", counts_ |-> <<>>]
      ELSE [ok |-> TRUE, error |-> "",
            counts_ |-> [i \in DOMAIN doc.v |->
                           [k \in DOMAIN doc.v[i].v |-> doc.v[i].v[k].u64[1]]]]

\* no stream, and the annotator that will load: counts_ is what it holds
NoAnnotation == [pc |-> "idle", stream |-> <<>>, counts_ |-> <<>>, ok |-> TRUE]

\* BranchAnnotator::Save of annotator into the stream
Save ==
  /\ annotation.pc = "start"
  /\ annotation' = [annotation EXCEPT !.pc = "saved", !.stream = SaveText(annotator.counts_)]
  /\ UNCHANGED <<model, dmat, annotator, pfor, predictor, parser, capi>>
  /\ UNCHANGED compiler_vars

\* BranchAnnotator::Load from the stream
Load ==
  /\ annotation.pc = "saved"
  /\ LET loaded == LoadText(annotation.stream)
     IN  annotation' = [annotation EXCEPT
                          !.pc = "loaded",
                          !.ok = loaded.ok,
                          !.counts_ = IF loaded.ok THEN loaded.counts_ ELSE @]
  /\ UNCHANGED <<model, dmat, annotator, pfor, predictor, parser, capi>>
  /\ UNCHANGED compiler_vars

\* a uint64 below 2^31 as the number the counts are kept as here
U64Value(limbs) == limbs[1] + limbs[2] * LIMB

\* the streams an annotator loads before it annotates
LoadedStreams == {SaveText(<<<<U64(0, 0, 0, 1), U64(0, 0, 0, 2)>>>>)}

\* BranchAnnotator::Load on an annotator that has not annotated yet
AnnotatorLoad(stream) ==
  /\ annotator.pc = "constructed"
  /\ annotator.counts_ = <<>>
  /\ LET loaded == LoadText(stream)
     IN  /\ loaded.ok
         /\ annotator' = [annotator EXCEPT
                            !.counts_ = [i \in DOMAIN loaded.counts_ |->
                                           [k \in DOMAIN loaded.counts_[i] |->
                                              U64Value(loaded.counts_[i][k])]]]
  /\ UNCHANGED <<model, dmat, pfor, predictor, parser, annotation, capi>>
  /\ UNCHANGED compiler_vars

(***************************************************************************)
(* c_api_error.h, c_api_error.cc, thread_local.h: a C API function whose   *)
(* body stands between API_BEGIN() and API_END(), called by several        *)
(* threads.                                                                *)
(***************************************************************************)
\* bound: the threads that call the C API are 0..MaxApiThread
MaxApiThread == 1
ApiThreads == 0..MaxApiThread

\* what() of the errors a body throws
ErrorMessages == {"Check failed", "Unrecognized key"}

\* a store that all threads share
ProcessWideStoreGet(thread) == 0

\* ThreadLocalStore<T>::Get(): the instance of the calling thread
ThreadLocalStoreGet(thread) == thread

\* a thread outside a call: ret is the value its last call returned,
\* exception what the body of the call in progress has thrown
IdleCall == [pc |-> "outside", body |-> "none", exception |-> "", ret |-> 0]

\* no call made yet, every last_error empty
NoCApi == [last_error |-> [store \in ApiThreads |-> ""],
           call |-> [thread \in ApiThreads |-> IdleCall]]

\* API_BEGIN(): the thread enters the try block
ApiBegin(thread) ==
  /\ capi.call[thread].pc = "outside"
  /\ capi' = [capi EXCEPT !.call[thread] = [IdleCall EXCEPT !.pc = "try"]]
  /\ UNCHANGED <<model, dmat, annotator, pfor, predictor, parser, annotation>>
  /\ UNCHANGED compiler_vars

\* the body runs to its end
ApiBodyCompletes(thread) ==
  /\ capi.call[thread].pc = "try"
  /\ capi' = [capi EXCEPT !.call[thread].pc = "end of try",
                          !.call[thread].body = "completed"]
  /\ UNCHANGED <<model, dmat, annotator, pfor, predictor, parser, annotation>>
  /\ UNCHANGED compiler_vars

\* the body throws a tl2cgen::Error (a std::runtime_error)
ApiBodyThrows(thread, message) ==
  /\ capi.call[thread].pc = "try"
  /\ capi' = [capi EXCEPT !.call[thread].pc = "catch",
                          !.call[thread].body = "threw",
                          !.call[thread].exception = message]
  /\ UNCHANGED <<model, dmat, annotator, pfor, predictor, parser, annotation>>
  /\ UNCHANGED compiler_vars

\* TL2cgenAPISetLastError
TL2cgenAPISetLastError(last_error, thread, msg) ==
  [last_error EXCEPT ![ThreadLocalStoreGet(thread)] = msg]

\* TL2cgenGetLastError
TL2cgenGetLastError(thread) == capi.last_error[ThreadLocalStoreGet(thread)]

\* API_END(), catch (std::exception&): return TL2cgenAPIHandleException
ApiCatch(thread) ==
  /\ capi.call[thread].pc = "catch"
  /\ capi' = [capi EXCEPT
                !.last_error = TL2cgenAPISetLastError(@, thread, capi.call[thread].exception),
                !.call[thread].pc = "outside",
                !.call[thread].ret = -1]
  /\ UNCHANGED <<model, dmat, annotator, pfor, predictor, parser, annotation>>
  /\ UNCHANGED compiler_vars

\* API_END(), after the try block: return 0
ApiReturn(thread) ==
  /\ capi.call[thread].pc = "end of try"
  /\ capi' = [capi EXCEPT !.call[thread].pc = "outside", !.call[thread].ret = 0]
  /\ UNCHANGED <<model, dmat, annotator, pfor, predictor, parser, annotation>>
  /\ UNCHANGED compiler_vars

Init ==
  /\ model \in Models
  /\ nodes = <<>>
  /\ main_node = nullptr
  /\ meta = NoMeta
  /\ last_call = NoCall
  /\ gencode = NoCode
  /\ dmat = NoMatrix
  /\ annotator = NoAnnotator
  /\ pfor = NoLoop
  /\ predictor = NoPredictor
  /\ parser = NoParser
  /\ annotation = NoAnnotation
  /\ capi = NoCApi

Next ==
  \/ BuildAST
  \/ \E num_tu \in NumTuChoices : SplitIntoTUs(num_tu)
  \/ QuantizeThresholds
  \/ GenerateIsCategoricalArray
  \/ GenerateCode

Spec == Init /\ [][Next]_vars

(***************************************************************************)
(* The passes over the AST in any order, load_data_counts among them       *)
(***************************************************************************)
\* a test of feature 2 below zero and a test of feature 0 above zero
SignTree ==
  <<NumericalTest(2, FALSE, "kLT", Real(-1), 1, 2),
    LeafNode(Real(-1)),
    NumericalTest(0, TRUE, "kGT", Real(1), 3, 4),
    LeafNode(Real(1)),
    LeafNode(Real(2))>>

PassModels ==
  {ScalarModel(trees) :
     trees \in SeqsUpTo({LeafTree, NumStump(2, TRUE, "kLE", 0), DeepTree, SignTree}, MaxTree)}

InitPasses ==
  /\ model \in PassModels
  /\ nodes = <<>>
  /\ main_node = nullptr
  /\ meta = NoMeta
  /\ last_call = NoCall
  /\ gencode = NoCode
  /\ dmat = NoMatrix
  /\ annotator = NoAnnotator
  /\ pfor = NoLoop
  /\ predictor = NoPredictor
  /\ parser = NoParser
  /\ annotation = NoAnnotation
  /\ capi = NoCApi

NextPasses ==
  \/ BuildAST
  \/ \E first \in DataCountChoices : LoadDataCounts(CountsOfShapeOf(model, first))
  \/ \E num_tu \in NumTuChoices : SplitIntoTUs(num_tu)
  \/ GenerateIsCategoricalArray
  \/ QuantizeThresholds

SpecPasses == InitPasses /\ [][NextPasses]_vars

(***************************************************************************)
(* The branch annotator at work on a model and a matrix                    *)
(***************************************************************************)
InitAnnotate ==
  /\ model \in AnnotatorModels
  /\ nodes = <<>>
  /\ main_node = nullptr
  /\ meta = NoMeta
  /\ last_call = NoCall
  /\ gencode = NoCode
  /\ dmat \in Matrices
  /\ annotator = NoAnnotator
  /\ pfor = NoLoop
  /\ predictor = NoPredictor
  /\ parser = NoParser
  /\ annotation = NoAnnotation
  /\ capi = NoCApi

NextAnnotate ==
  \/ \E stream \in LoadedStreams : AnnotatorLoad(stream)
  \/ \E nthread \in NthreadChoices : Annotate(nthread)
  \/ \E tid \in 0..(MaxNumThread - 1) : AnnotatorFill(tid)
  \/ \E tid \in 0..(MaxNumThread - 1) : AnnotatorTraverse(tid)
  \/ \E tid \in 0..(MaxNumThread - 1) : AnnotatorReset(tid)
  \/ AnnotatorJoin

SpecAnnotate == InitAnnotate /\ [][NextAnnotate]_vars

(***************************************************************************)
(* One call of ParallelFor                                                 *)
(***************************************************************************)
InitParallelFor ==
  /\ model = ScalarModel(<<LeafTree>>)
  /\ nodes = <<>>
  /\ main_node = nullptr
  /\ meta = NoMeta
  /\ last_call = NoCall
  /\ gencode = NoCode
  /\ dmat = NoMatrix
  /\ annotator = NoAnnotator
  /\ pfor = NoLoop
  /\ predictor = NoPredictor
  /\ parser = NoParser
  /\ annotation = NoAnnotation
  /\ capi = NoCApi

NextParallelFor ==
  \/ \E begin \in Indices, nthread \in 1..MaxNumThread, sched \in Schedules :
       \E end \in begin..MaxIndex, chunk \in ChunkChoices(sched) :
         \E fails \in SUBSET (begin..(end - 1)) :
           ParallelFor(begin, end, nthread, sched, chunk, fails)
  \/ \E tid \in 0..(MaxNumThread - 1) : PForDispatch(tid)
  \/ \E tid \in 0..(MaxNumThread - 1) : PForRun(tid)
  \/ \E tid \in 0..(MaxNumThread - 1) : PForCatch(tid)
  \/ PForRethrow

SpecParallelFor == InitParallelFor /\ [][NextParallelFor]_vars

(***************************************************************************)
(* One call of predict_batch on a loaded library                           *)
(***************************************************************************)
InitPredict ==
  /\ model \in PredictorModels
  /\ nodes = <<>>
  /\ main_node = nullptr
  /\ meta = NoMeta
  /\ last_call = NoCall
  /\ gencode = NoCode
  /\ dmat \in PredictorMatrices
  /\ annotator = NoAnnotator
  /\ pfor = NoLoop
  /\ predictor \in {NewPredictor(nthread, quantized) :
                       nthread \in 1..MaxNumThread, quantized \in BOOLEAN}
  /\ parser = NoParser
  /\ annotation = NoAnnotation
  /\ capi = NoCApi

NextPredict ==
  \/ PredictBatch
  \/ \E w \in 0..(MaxNumThread - 1) : WorkerStart(w)
  \/ \E w \in 0..(MaxNumThread - 1) : WorkerFill(w)
  \/ \E w \in 0..(MaxNumThread - 1) : WorkerPredict(w)
  \/ \E w \in 0..(MaxNumThread - 1) : WorkerReset(w)
  \/ PredictJoin

SpecPredict == InitPredict /\ [][NextPredict]_vars

(***************************************************************************)
(* One call of CompilerParam::ParseFromJSON on a text                      *)
(***************************************************************************)
InitParse ==
  /\ model = ScalarModel(<<LeafTree>>)
  /\ nodes = <<>>
  /\ main_node = nullptr
  /\ meta = NoMeta
  /\ last_call = NoCall
  /\ gencode = NoCode
  /\ dmat = NoMatrix
  /\ annotator = NoAnnotator
  /\ pfor = NoLoop
  /\ predictor = NoPredictor
  /\ parser \in {[NoParser EXCEPT !.pc = "input", !.given = given] : given \in ParamInputs}
  /\ annotation = NoAnnotation
  /\ capi = NoCApi

NextParse == \E variant \in ParserVariants : ParseFromJSON(variant)

SpecParse == InitParse /\ [][NextParse]_vars

(***************************************************************************)
(* An annotator saves its counts and another one, empty or not, loads them *)
(***************************************************************************)
InitSaveLoad ==
  /\ model = ScalarModel(<<LeafTree>>)
  /\ nodes = <<>>
  /\ main_node = nullptr
  /\ meta = NoMeta
  /\ last_call = NoCall
  /\ gencode = NoCode
  /\ dmat = NoMatrix
  /\ annotator \in {[NoAnnotator EXCEPT !.pc = "done", !.counts_ = counts] :
                       counts \in CountsChoices}
  /\ pfor = NoLoop
  /\ predictor = NoPredictor
  /\ parser = NoParser
  /\ annotation \in {[NoAnnotation EXCEPT !.pc = "start", !.counts_ = counts] :
                        counts \in {<<>>, <<<<U64(0, 0, 0, 1), U64(0, 0, 0, 2)>>>>}}
  /\ capi = NoCApi

NextSaveLoad == Save \/ Load

SpecSaveLoad == InitSaveLoad /\ [][NextSaveLoad]_vars

(***************************************************************************)
(* Threads call functions of the C API, one call after the other           *)
(***************************************************************************)
InitCApi ==
  /\ model = ScalarModel(<<LeafTree>>)
  /\ nodes = <<>>
  /\ main_node = nullptr
  /\ meta = NoMeta
  /\ last_call = NoCall
  /\ gencode = NoCode
  /\ dmat = NoMatrix
  /\ annotator = NoAnnotator
  /\ pfor = NoLoop
  /\ predictor = NoPredictor
  /\ parser = NoParser
  /\ annotation = NoAnnotation
  /\ capi = NoCApi

NextCApi ==
  \/ \E thread \in ApiThreads : ApiBegin(thread)
  \/ \E thread \in ApiThreads : ApiBodyCompletes(thread)
  \/ \E thread \in ApiThreads : \E message \in ErrorMessages : ApiBodyThrows(thread, message)
  \/ \E thread \in ApiThreads : ApiCatch(thread)
  \/ \E thread \in ApiThreads : ApiReturn(thread)

SpecCApi == InitCApi /\ [][NextCApi]_vars

(***************************************************************************)
(* Properties.  What the properties read off the state.                    *)
(***************************************************************************)
TopChild == nodes[main_node].children[1]
Built == main_node # nullptr
HasQuantizer == Built /\ nodes[TopChild].kind = "QuantizerNode"
CodeEmitted == gencode.generated /\ gencode.ok

\* the nodes of the AST: what the root reaches (the arena keeps the nodes a
\* pass has detached)
RECURSIVE Descendants(_)
Descendants(node) ==
  {node} \cup UNION {Descendants(nodes[node].children[k]) : k \in DOMAIN nodes[node].children}
ASTNodes == IF Built THEN Descendants(main_node) ELSE {}
NumericalNodes == {node \in ASTNodes : nodes[node].kind = "NumericalConditionNode"}
CategoricalNodes == {node \in ASTNodes : nodes[node].kind = "CategoricalConditionNode"}
ConditionNodes == NumericalNodes \cup CategoricalNodes

\* the node of the model's tree that an AST node was built from
TreeNodeOf(node) == model.trees[nodes[node].tree_id + 1][nodes[node].node_id + 1]

\* the if statement emitted for a Condition node
IfFragmentOf(node) ==
  CHOOSE fr \in AllFragments(gencode) : fr.kind = "if" /\ fr.node = node

\* the comparison inside the missing-value guard of a numerical test
NumericalPart(condition) ==
  IF condition.e \in {"LIKELY", "UNLIKELY"} THEN condition.arg.rhs ELSE condition.rhs

FragmentOfKind(file, kind) ==
  CHOOSE fr \in Range(SourceOf(gencode, file)) : fr.kind = kind
QuantizeEmitted == \E fr \in Range(SourceOf(gencode, "quantize.c")) : fr.kind = "quantize arrays"
QuantizeArrays == FragmentOfKind("quantize.c", "quantize arrays")
QuantizeTotal == FragmentOfKind("quantize.c", "quantize function").total_num_threshold

\* a data row that holds entry for feature f and nothing else
RowWith(f, entry) ==
  [i \in 1..meta.num_feature |-> IF i = f + 1 THEN entry ELSE MissingEntry]

\* the row after the quantize loop of main.c
QuantizedRow(data) ==
  [i \in DOMAIN data |->
     QuantizeEntry(data[i], i - 1, FragmentOfKind("main.c", "main start").is_categorical,
                   QuantizeArrays, QuantizeTotal)]

IsInteger(v) == isfinite(v) /\ v % UNIT = 0
Trunc(v) == CDiv(v, UNIT)

(***************************************************************************)
(* C1: for every NumericalCondition that quantize_thresholds rewrote        *)
(* (finite threshold t on feature f, rewritten to q = 2k) and every         *)
(* non-missing value v, the emitted test quantize(v, f) op q has the truth  *)
(* value of v op t, so the quantized program takes the branch the           *)
(* unquantized one takes.                                                   *)
(***************************************************************************)
C1_QuantizedTestAgrees ==
  (CodeEmitted /\ HasQuantizer /\ QuantizeEmitted
     /\ Len(meta.is_categorical) = meta.num_feature) =>
    \A node \in NumericalNodes :
      nodes[node].quantized_threshold # nullopt =>
        \A v \in FeatureValues \ {NaN} :
          EvalCondition(IfFragmentOf(node).condition,
                        QuantizedRow(RowWith(nodes[node].split_index, FvalueEntry(v))), 0)
            = CompareWithOp(v, nodes[node].op, nodes[node].threshold)

(***************************************************************************)
(* C2: for every feature fid whose threshold list T has len >= 1 and every  *)
(* val, the generated quantize(val, fid) returns 2k exactly when            *)
(* val == T[k], 2k+1 when T[k] < val < T[k+1], -10 when val < T[0] and      *)
(* 2*len when val > T[len-1]; the binary search terminates.                 *)
(***************************************************************************)
C2_QuantizeReturnValues ==
  (CodeEmitted /\ HasQuantizer /\ QuantizeEmitted) =>
    \A fid \in 0..(meta.num_feature - 1) :
      LET T == nodes[TopChild].threshold_list[fid + 1]
          len == Len(T)
      IN  len >= 1 =>
            \A val \in FeatureValues :
              LET r == Quantize(val, fid, QuantizeArrays, QuantizeTotal)
              IN  /\ r.terminates
                  /\ \A k \in 0..(len - 1) : (r.ret = 2 * k) <=> FEq(val, T[k + 1])
                  /\ \A k \in 0..(len - 2) :
                       (FLt(T[k + 1], val) /\ FLt(val, T[k + 2])) => r.ret = 2 * k + 1
                  /\ FLt(val, T[1]) => r.ret = QUANTIZE_BELOW
                  /\ FGt(val, T[len]) => r.ret = 2 * len

(***************************************************************************)
(* C3: after quantize_thresholds, every NumericalCondition with a finite    *)
(* original threshold has quantized_threshold set to an even q with q/2 a   *)
(* valid index into threshold_list[split_index] and                         *)
(* threshold_list[split_index][q/2] equal to the original threshold; every  *)
(* NumericalCondition with an infinite threshold has no quantized_threshold.*)
(***************************************************************************)
C3_QuantizedThresholdIndexes ==
  HasQuantizer =>
    \A node \in NumericalNodes :
      LET n == nodes[node]
          original == TreeNodeOf(node).threshold
          list == nodes[TopChild].threshold_list[n.split_index + 1]
      IN  IF isfinite(original)
          THEN /\ n.quantized_threshold # nullopt
               /\ LET q == n.quantized_threshold[1]
                  IN  /\ q % 2 = 0
                      /\ q \div 2 \in 0..(Len(list) - 1)
                      /\ list[q \div 2 + 1] = original
          ELSE n.quantized_threshold = nullopt

C3_Witness ==
  /\ HasQuantizer
  /\ last_call = [name |-> "QuantizeThresholds", ok |-> TRUE, arg |-> 0]
  /\ \E node \in NumericalNodes :
       nodes[node].quantized_threshold # nullopt /\ nodes[node].quantized_threshold[1] >= 2
  /\ \E node \in NumericalNodes : isinf(nodes[node].threshold)

(***************************************************************************)
(* C4: a second quantize_thresholds on the same AST fails, for every model  *)
(* (also one without a finite numerical threshold), and changes nothing:    *)
(* no quantized_threshold, no zero_quantized, and the chain                 *)
(* Main -> Quantizer -> Function stays (no second Quantizer).               *)
(***************************************************************************)
C4_SecondQuantizeFails ==
  [][(HasQuantizer /\ QuantizeThresholds) => (~last_call'.ok /\ nodes' = nodes)]_vars

C4_Witness ==
  /\ HasQuantizer
  /\ last_call = [name |-> "QuantizeThresholds", ok |-> FALSE, arg |-> 0]
  /\ \A f \in DOMAIN nodes[TopChild].threshold_list : nodes[TopChild].threshold_list[f] = <<>>
  /\ nodes[nodes[TopChild].children[1]].kind = "FunctionNode"
  /\ Cardinality({node \in ASTNodes : nodes[node].kind = "QuantizerNode"}) = 1

(***************************************************************************)
(* C5: after split_into_tus(n), n > 0, the Function under Main has at most  *)
(* n children, all TranslationUnit nodes, and the trees held by the         *)
(* TranslationUnits, listed in TU order, are the pre-split trees, each once *)
(* and in the same order.                                                   *)
(***************************************************************************)
C5_SplitKeepsTrees ==
  (last_call.name = "SplitIntoTUs" /\ last_call.ok /\ last_call.arg > 0) =>
    LET units == nodes[TopChild].children
        held == Flatten([k \in DOMAIN units |-> nodes[nodes[units[k]].children[1]].children])
    IN  /\ Len(units) <= last_call.arg
        /\ \A k \in DOMAIN units : nodes[units[k]].kind = "TranslationUnitNode"
        /\ [k \in DOMAIN held |-> nodes[held[k]].tree_id]
             = [k \in 1..Len(model.trees) |-> k - 1]

(***************************************************************************)
(* C6: with average_tree_output set, for every target t in [0, num_target)  *)
(* and every class c in [0, max_num_class), average_factor[t, c] (index     *)
(* t*max_num_class + c) is the number of trees whose target_id is t or -1   *)
(* and whose class_id is c or -1; without average_tree_output,              *)
(* average_factor is absent.                                                *)
(***************************************************************************)
TreesContributingTo(t, c) ==
  Cardinality({tree \in DOMAIN model.trees :
                 /\ model.target_id[tree] \in {t, -1}
                 /\ model.class_id[tree] \in {c, -1}})

AverageFactorCountsTrees(Classes(_)) ==
  Built =>
    IF model.average_tree_output
    THEN /\ nodes[main_node].average_factor # nullopt
         /\ \A t \in 0..(model.num_target - 1) :
              \A c \in Classes(t) :
                nodes[main_node].average_factor[1][t * SeqMax(model.num_class) + c + 1]
                  = TreesContributingTo(t, c)
    ELSE nodes[main_node].average_factor = nullopt

AllClasses(t) == 0..(SeqMax(model.num_class) - 1)
ClassesOfTarget(t) == 0..(model.num_class[t + 1] - 1)

C6_AverageFactorEveryCell == AverageFactorCountsTrees(AllClasses)

\* C6 as amended: the same count, for every class c in [0, num_class[t])
C6_AverageFactorOwnClasses == AverageFactorCountsTrees(ClassesOfTarget)

C6_Witness ==
  /\ Built
  /\ model.average_tree_output
  /\ model.num_class = <<1, 2>>
  /\ nodes[main_node].average_factor = << <<2, 0, 2, 2>> >>

(***************************************************************************)
(* C7: in the emitted predict function, for every target t and class        *)
(* c < num_class[t], result[t*max_num_class + c] is divided by              *)
(* average_factor[t, c] (when averaging is present) and then has            *)
(* base_scores[t, c] added; these statements come after all tree            *)
(* contributions and before the call to postprocess.                        *)
(***************************************************************************)
C7_MainNodeUsesOwnCell ==
  CodeEmitted =>
    LET main == SourceOf(gencode, "main.c")
        max_num_class == SeqMax(meta.num_class)
        IsDivide(i) == main[i].kind = "result /="
        IsAdd(i) == main[i].kind = "result +=" /\ main[i].node = main_node
        IsTreeWork(i) ==
          \/ main[i].kind \in {"if", "predict_unit(data, result);"}
          \/ main[i].kind = "result +=" /\ main[i].node # main_node
        IsPostprocess(i) == main[i].kind = "if (!pred_margin) { postprocess(result); }"
    IN  \A t \in 0..(meta.num_target - 1) :
          \A c \in 0..(meta.num_class[t + 1] - 1) :
            LET cell == t * max_num_class + c
            IN  \E j \in DOMAIN main :
                  /\ IsAdd(j)
                  /\ main[j].offset = cell
                  /\ main[j].value = model.base_scores[cell + 1]
                  /\ \A i \in DOMAIN main : IsTreeWork(i) => i < j
                  /\ \E k \in DOMAIN main : IsPostprocess(k) /\ j < k
                  /\ model.average_tree_output =>
                       \E i \in DOMAIN main :
                         /\ IsDivide(i)
                         /\ i < j
                         /\ main[i].offset = cell
                         /\ main[i].value = nodes[main_node].average_factor[1][cell + 1]
                         /\ \A w \in DOMAIN main : IsTreeWork(w) => w < i

(***************************************************************************)
(* C8: for every emitted Condition node, numerical or categorical, when the *)
(* tested feature is missing the emitted test is true (left child) if       *)
(* default_left and false (right child) otherwise, whatever the threshold,  *)
(* operator or category list (an empty category list included).             *)
(***************************************************************************)
C8_MissingFollowsDefault ==
  CodeEmitted =>
    \A node \in ConditionNodes :
      EvalCondition(IfFragmentOf(node).condition,
                    RowWith(nodes[node].split_index, MissingEntry), 0)
        = nodes[node].default_left

(***************************************************************************)
(* C9: for an emitted categorical test with category_list L and             *)
(* category_list_right_child = false, a present value v takes the left      *)
(* child exactly when v is a non-negative integer that is a member of L,    *)
(* and the right child for every other value: integers not in L, values     *)
(* beyond the bitmap, negative values, non-integers such as 3.5 with 3 in L.*)
(***************************************************************************)
CategoricalTestTakesLeft(GoesLeft(_, _)) ==
  CodeEmitted =>
    \A node \in CategoricalNodes :
      ~nodes[node].category_list_right_child =>
        \A v \in FeatureValues :
          \A ub \in UnsignedCastOutcomes(v) :
            EvalCondition(IfFragmentOf(node).condition,
                          RowWith(nodes[node].split_index, FvalueEntry(v)), ub)
              = GoesLeft(v, Range(TreeNodeOf(node).category_list))

IntegerMember(v, L) == IsInteger(v) /\ v >= 0 /\ Trunc(v) \in L
TruncatedMember(v, L) ==
  /\ isfinite(v)
  /\ v >= 0
  /\ Trunc(v) <= 2 ^ FLT_MANT_DIG
  /\ Trunc(v) \in L

C9_LeftIffIntegerMember == CategoricalTestTakesLeft(IntegerMember)

\* C9 as amended: left exactly when v >= 0, v <= 2^FLT_MANT_DIG and v
\* truncated toward zero is a member of L
C9_LeftIffTruncatedMember == CategoricalTestTakesLeft(TruncatedMember)

C9_Witness ==
  /\ CodeEmitted
  /\ \E node \in CategoricalNodes :
       /\ ~nodes[node].category_list_right_child
       /\ nodes[node].category_list = <<1, 65>>
       /\ \A ub \in UnsignedCastOutcomes(Half(131)) :
            EvalCondition(IfFragmentOf(node).condition,
                          RowWith(nodes[node].split_index, FvalueEntry(Half(131))), ub)
       /\ \A ub \in UnsignedCastOutcomes(Half(-2)) :
            ~EvalCondition(IfFragmentOf(node).condition,
                           RowWith(nodes[node].split_index, FvalueEntry(Half(-2))), ub)

(***************************************************************************)
(* C10: for a NumericalCondition whose threshold is +infinity or -infinity  *)
(* (never quantized, even when quantization ran) the emitted comparison is  *)
(* the literal 1 or 0, and the literal is the truth value of x op threshold *)
(* for every finite x and each operator.                                    *)
(***************************************************************************)
C10_InfiniteThresholdLiteral ==
  CodeEmitted =>
    \A node \in NumericalNodes :
      isinf(TreeNodeOf(node).threshold) =>
        LET comparison == NumericalPart(IfFragmentOf(node).condition)
        IN  /\ nodes[node].quantized_threshold = nullopt
            /\ comparison.e = "literal"
            /\ comparison.value \in {0, 1}
            /\ \A x \in {v \in FeatureValues : isfinite(v)} :
                 (comparison.value = 1)
                   = CompareWithOp(x, TreeNodeOf(node).op, TreeNodeOf(node).threshold)

C10_Witness ==
  /\ CodeEmitted
  /\ HasQuantizer
  /\ \E node \in NumericalNodes :
       /\ nodes[node].threshold = NegInf
       /\ nodes[node].op = "kGE"
       /\ NumericalPart(IfFragmentOf(node).condition) = [e |-> "literal", value |-> 1]
  /\ \E node \in NumericalNodes : nodes[node].quantized_threshold # nullopt

(***************************************************************************)
(* Claims about the branch annotator                                       *)
(***************************************************************************)
AnnotateDone == annotator.pc = "done"

\* row rid as the matrix gives it: a feature without a value is missing
RowEntries(rid) ==
  [f \in 1..model.num_feature |->
     IF \E e \in FilledEntries(rid) : e[1] = f - 1
     THEN FvalueEntry((CHOOSE e \in FilledEntries(rid) : e[1] = f - 1)[2])
     ELSE MissingEntry]

\* the counts of one thread that takes the rows in order: every row adds one
\* to each node on its path
SequentialCounts ==
  [i \in 1..Len(model.trees) |->
     LET tree == model.trees[i]
         Path(rid) == Traverse_(tree, RowEntries(rid), 0, [k \in 1..Len(tree) |-> 0], 0)
     IN  [k \in 1..Len(tree) |-> SeqSum([r \in 1..dmat.num_row |-> Path(r - 1)[k]])]]

\* the rows counts_ held before Annotate, on a fresh annotator none
PriorRows == Len(annotator.counts_) - Len(model.trees)

\* C11: for any model and any matrix, dense or CSR, narrower than the model
\* or not, the counts annotate produces are the same for every nthread >= 1
\* and every interleaving of the threads: they are the counts of one thread
\* that takes the rows in order
C11_CountsIndependentOfThreads ==
  (AnnotateDone /\ PriorRows = 0) => annotator.counts_ = SequentialCounts

\* the same for the matrices that are as wide as the model
C11_WideMatrixCounts ==
  (AnnotateDone /\ PriorRows = 0 /\ dmat.num_col >= model.num_feature) =>
    annotator.counts_ = SequentialCounts

\* two threads were at work on a band of a wide matrix
C11_WideWitness ==
  /\ AnnotateDone
  /\ annotator.nthread = 2
  /\ dmat.num_row = ManyRows
  /\ dmat.num_col >= model.num_feature
  /\ model.trees = <<NumStump(0, TRUE, "kLT", Fine(1)), DeepTree>>

(***************************************************************************)
(* Claims about ParallelFor                                                *)
(***************************************************************************)
LoopRange == pfor.begin..(pfor.end - 1)
LoopOver == pfor.pc \in {"returned", "thrown"}
Throwing == pfor.fails \cap LoopRange

\* C12: when iterations throw, no iteration is cancelled, exactly one of the
\* thrown errors is stored, the one whose thread takes the mutex first (a
\* later one does not overwrite it), and ParallelFor rethrows it on the
\* calling thread only after all iterations have finished; when no iteration
\* throws, ParallelFor returns normally
C12_FirstErrorRethrownAfterJoin ==
  /\ [](/\ pfor.omp_exception_ # <<>> => pfor.omp_exception_[1] \in Throwing
        /\ LoopOver =>
              /\ \A i \in LoopRange : pfor.calls[i] = 1
              /\ pfor.pc = "thrown" <=> Throwing # {}
              /\ pfor.rethrown = pfor.omp_exception_
        /\ ~LoopOver => pfor.rethrown = <<>>)
  /\ [][pfor.omp_exception_ # <<>> => pfor'.omp_exception_ = pfor.omp_exception_]_vars

\* two iterations threw on two threads and the error of the later index
\* was the one stored and rethrown
C12_Witness ==
  /\ pfor.pc = "thrown"
  /\ pfor.nthread = 2
  /\ Cardinality(Throwing) >= 2
  /\ \E i \in Throwing : i < pfor.rethrown[1]
  /\ \A i \in LoopRange : pfor.calls[i] = 1

\* C13: for every begin <= end, every thread count and every schedule, with
\* or without a chunk size, ParallelFor invokes the body exactly once for
\* each index of [begin, end) and never for an index outside; when
\* begin = end the body is never invoked
C13_BodyOncePerIndex ==
  /\ \A i \in Indices :
       pfor.calls[i] <= (IF pfor.pc # "idle" /\ i \in LoopRange THEN 1 ELSE 0)
  /\ LoopOver => \A i \in LoopRange : pfor.calls[i] = 1

\* a guided loop of three iterations on two threads has returned
C13_Witness ==
  /\ pfor.pc = "returned"
  /\ pfor.sched = "kGuided"
  /\ pfor.nthread = 2
  /\ pfor.end - pfor.begin = 3
  /\ \A i \in LoopRange : pfor.calls[i] = 1

\* a loop with begin = end has returned
C13_EmptyWitness ==
  /\ pfor.pc = "returned"
  /\ pfor.begin = pfor.end
  /\ \A i \in Indices : pfor.calls[i] = 0

(***************************************************************************)
(* Claims about the predictor                                              *)
(***************************************************************************)
BatchStarted == predictor.pc # "loaded" /\ dmat.num_row > 0

\* the rows [rbegin, rend) of worker w
WorkerRange(w) == predictor.row_ptr[w + 1]..(predictor.row_ptr[w + 2] - 1)

\* C14: predict_batch on num_row > 0 rows uses k = min(nthread, num_row)
\* workers; their ranges [rbegin, rend) are non-empty, contiguous and
\* pairwise disjoint and cover [0, num_row); the first num_row mod k of them
\* have floor(num_row / k) + 1 rows and the others floor(num_row / k)
C14_WorkerRanges ==
  BatchStarted =>
    LET num_row == dmat.num_row
        k == Min(predictor.nthread, num_row)
    IN  /\ Len(predictor.worker) = k
        /\ Len(predictor.row_ptr) = k + 1
        /\ \A w \in 0..(k - 1) :
             /\ WorkerRange(w) # {}
             /\ predictor.worker[w + 1].rend = predictor.row_ptr[w + 2]
             /\ predictor.worker[w + 1].rid \in WorkerRange(w) \cup {predictor.row_ptr[w + 2]}
             /\ Cardinality(WorkerRange(w)) =
                  (num_row \div k) + (IF w < num_row % k THEN 1 ELSE 0)
             /\ w > 0 => predictor.row_ptr[w + 1] - 1 \in WorkerRange(w - 1)
        /\ \A r \in 0..(num_row - 1) :
             Cardinality({w \in 0..(k - 1) : r \in WorkerRange(w)}) = 1

\* two workers have done a batch of three rows: two rows and one row
C14_Witness ==
  /\ predictor.pc = "done"
  /\ dmat.num_row = 3
  /\ predictor.row_ptr = <<0, 2, 3>>

\* C15: for any worker count and any interleaving, the output slice that
\* predict_batch writes for row r is what predict yields on a working vector
\* in which exactly the present features of row r are set and every other
\* entry is missing (no value of an earlier row is left), and no worker
\* writes the slice of a row outside its range
C15_RowOutputs ==
  /\ \A r \in DOMAIN predictor.out_result :
       /\ predictor.out_result[r] # <<>> =>
            predictor.out_result[r] = Predict(model, RowEntries(r - 1), predictor.quantized).out
       /\ \A w \in predictor.writers[r] : (r - 1) \in WorkerRange(w)
  /\ predictor.pc = "done" =>
       \A r \in DOMAIN predictor.out_result : predictor.out_result[r] # <<>>

\* a worker has done a row in which feature 0 is absent after a row in
\* which it is present, for a tree that sends the two rows to different
\* leaves, while another worker was at work
C15_Witness ==
  /\ predictor.pc = "done"
  /\ Len(predictor.worker) = 2
  /\ dmat.kind = "csr"
  /\ dmat.num_row >= 3
  /\ Len(model.trees) = 2
  /\ RowEntries(0)[1].tag = "fvalue"
  /\ RowEntries(1)[1].tag = "missing"
  /\ predictor.out_result[1] # predictor.out_result[2]

(***************************************************************************)
(* Claims about CompilerParam::ParseFromJSON                               *)
(***************************************************************************)
Parsed == parser.pc = "parsed"
Given == parser.given.members
IsJSONObject == parser.given.object /\ \A i \in DOMAIN Given : Given[i].is # "malformed"
BadMembers == {i \in DOMAIN Given : Given[i].is # "ok"}
FirstBad == CHOOSE i \in BadMembers : \A k \in BadMembers : i <= k

\* the message for a member that is not "ok"
MessageFor(member) ==
  CASE member.is = "unknown" -> "Unrecognized key '<key>' in JSON"
    [] member.is = "negative" -> "'<key>' must be 0 or greater"
    [] member.is = "wrong type" ->
         IF member.name \in StringKeys THEN "Expected a string for '<key>'"
         ELSE "Expected an integer for '<key>'"
    [] OTHER -> "Got an invalid JSON string"

\* C16: ParseFromJSON (compiler_param.cc) fails with tl2cgen::Error when the
\* input is not a well-formed JSON object ("Got an invalid JSON string"),
\* has an unknown key ("Unrecognized key '<key>'"), has a value of the wrong
\* JSON type ("Expected an integer for '<key>'", "Expected a string for
\* '<key>'"), or has a negative quantize or parallel_comp ("'<key>' must be
\* 0 or greater"); the error is that of the first such member
C16_ParseErrors ==
  (Parsed /\ parser.variant = "compiler_param.cc") =>
    /\ ~IsJSONObject => parser.result = Thrown("Got an invalid JSON string", "")
    /\ (IsJSONObject /\ BadMembers # {}) =>
         parser.result = Thrown(MessageFor(Given[FirstBad]), Given[FirstBad].name)

\* a negative parallel_comp after a good quantize was refused
C16_Witness ==
  /\ Parsed
  /\ parser.variant = "compiler_param.cc"
  /\ Len(Given) = 2
  /\ Given[1].is = "ok"
  /\ parser.result = Thrown("'<key>' must be 0 or greater", "parallel_comp")

\* the options of the table, with their defaults
TableDefaults ==
  [annotate_in |-> "NULL", quantize |-> 0, parallel_comp |-> 0, verbose |-> 0,
   native_lib_name |-> "predictor"]

\* the value the text gives for key: that of the last member of that name,
\* or the default when there is none
GivenOrDefault(key) ==
  LET given == {i \in DOMAIN Given : Given[i].name = key}
      last == CHOOSE i \in given : \A k \in given : k <= i
  IN  IF given = {} THEN [s |-> IF key \in StringKeys THEN TableDefaults[key] ELSE "",
                         v |-> IF key \in StringKeys THEN 0 ELSE TableDefaults[key]]
      ELSE [s |-> Given[last].s, v |-> Given[last].v]

ParamHolds(param) ==
  /\ param.annotate_in = GivenOrDefault("annotate_in").s
  /\ param.native_lib_name = GivenOrDefault("native_lib_name").s
  /\ param.quantize = GivenOrDefault("quantize").v
  /\ param.parallel_comp = GivenOrDefault("parallel_comp").v
  /\ param.verbose = GivenOrDefault("verbose").v

WellFormedParams == parser.given.object /\ BadMembers = {}

\* C17: on an object with only recognized, well-typed, in-range keys
\* ParseFromJSON returns a CompilerParam in which each given key holds the
\* given value and each omitted key its default (annotate_in = "NULL",
\* quantize = 0, parallel_comp = 0, verbose = 0, native_lib_name =
\* "predictor")
C17_GivenValuesAndDefaults ==
  (Parsed /\ WellFormedParams) => (parser.result.ok /\ ParamHolds(parser.result.param))

\* the same for the definition of compiler.cc, which assigns the defaults
C17_CompilerCcDefaults ==
  (Parsed /\ WellFormedParams /\ parser.variant = "compiler.cc") =>
    (parser.result.ok /\ ParamHolds(parser.result.param))

(***************************************************************************)
(* Claims about the saved annotation                                       *)
(***************************************************************************)
\* C18: for every counts value (any number of trees, any length per tree,
\* any uint64 entries) Save followed by Load yields equal counts in the same
\* order; Load replaces what the annotator held and does not append to it
C18_SaveLoadRoundTrip ==
  annotation.pc = "loaded" => (annotation.ok /\ annotation.counts_ = annotator.counts_)

\* counts of two trees with the largest uint64 among them were loaded into
\* an annotator that held other counts
C18_Witness ==
  /\ annotation.pc = "loaded"
  /\ Len(annotation.counts_) = 2
  /\ \E i \in DOMAIN annotation.counts_ :
       U64(LIMB - 1, LIMB - 1, LIMB - 1, LIMB - 1) \in Range(annotation.counts_[i])
  /\ annotation.counts_ # <<<<U64(0, 0, 0, 1), U64(0, 0, 0, 2)>>>>

(***************************************************************************)
(* C19: in any sequence of pass calls after build, split_into_tus(n > 0)    *)
(* called after quantize_thresholds has succeeded (Main's single child is   *)
(* then a Quantizer, not a Function) fails and leaves the AST unchanged,    *)
(* whereas quantize_thresholds called after split_into_tus succeeds and     *)
(* quantizes the conditions inside every TranslationUnit.                   *)
(***************************************************************************)
TranslationUnits == {node \in ASTNodes : nodes[node].kind = "TranslationUnitNode"}
InsideTranslationUnits == UNION {Descendants(tu) : tu \in TranslationUnits}
SplitNotQuantized ==
  /\ Built
  /\ ~HasQuantizer
  /\ \/ TranslationUnits # {}
     \/ (last_call.name = "SplitIntoTUs" /\ last_call.ok /\ last_call.arg > 0)

C19_SplitBeforeQuantize ==
  [][/\ (last_call'.name = "SplitIntoTUs" /\ last_call'.arg > 0 /\ HasQuantizer) =>
          (~last_call'.ok /\ nodes' = nodes)
     /\ (last_call'.name = "QuantizeThresholds" /\ SplitNotQuantized /\ QuantizeThresholds) =>
          /\ last_call'.ok
          /\ nodes'[nodes'[main_node].children[1]].kind = "QuantizerNode"
          /\ \A tu \in TranslationUnits :
               /\ nodes'[tu].kind = "TranslationUnitNode"
               /\ nodes'[tu].children = nodes[tu].children
          /\ \A node \in InsideTranslationUnits :
               (nodes[node].kind = "NumericalConditionNode" /\ isfinite(nodes[node].threshold))
                 => nodes'[node].quantized_threshold # nullopt]_vars

\* the AST was split into two units, then quantized inside both, and
\* a split called after that has failed
C19_Witness ==
  /\ HasQuantizer
  /\ last_call.name = "SplitIntoTUs" /\ ~last_call.ok /\ last_call.arg > 0
  /\ Cardinality(TranslationUnits) = 2
  /\ \A tu \in TranslationUnits :
       \E node \in Descendants(tu) :
         /\ nodes[node].kind = "NumericalConditionNode"
         /\ nodes[node].quantized_threshold # nullopt

(***************************************************************************)
(* C20: code generation emits quantize.c (with the quantize() prototype in  *)
(* header.h and the quantize loop in predict) if and only if the AST        *)
(* contains a Quantizer node, also for a model with no finite numerical     *)
(* threshold; it emits tu{unit_id}.c for each TranslationUnit node and no   *)
(* tu*.c file otherwise.                                                    *)
(***************************************************************************)
QuantizerNodes == {node \in ASTNodes : nodes[node].kind = "QuantizerNode"}
QuantizersWithThresholds ==
  {node \in QuantizerNodes :
     \E f \in DOMAIN nodes[node].threshold_list : nodes[node].threshold_list[f] # <<>>}
EmittedFiles == DOMAIN gencode.sources
HasFragment(file, kind) == \E fr \in Range(SourceOf(gencode, file)) : fr.kind = kind
UnitFile(tu) == "tu" \o ToString(nodes[tu].unit_id) \o ".c"

\* quantize.c, the prototype and the loop are all there, or none of them is
QuantizeFilesAre(there) ==
  /\ ("quantize.c" \in EmittedFiles) = there
  /\ HasFragment("header.h", "quantize prototype") = there
  /\ HasFragment("main.c", "quantize loop") = there

\* one file for each TranslationUnit node and no other file but the three
UnitFilesEmitted ==
  /\ \A tu \in TranslationUnits :
       /\ UnitFile(tu) \in EmittedFiles
       /\ HasFragment(UnitFile(tu), "predict_unit {")
  /\ \A tu1, tu2 \in TranslationUnits : UnitFile(tu1) = UnitFile(tu2) => tu1 = tu2
  /\ EmittedFiles \subseteq
       {"header.h", "main.c", "quantize.c"} \cup {UnitFile(tu) : tu \in TranslationUnits}

C20_QuantizeFileIffQuantizer ==
  CodeEmitted => (QuantizeFilesAre(QuantizerNodes # {}) /\ UnitFilesEmitted)

\* C20, amended: quantize.c, the prototype and the loop are emitted if and
\* only if the AST contains a Quantizer node whose threshold_list holds a
\* threshold; the files tu{unit_id}.c are as C20 says
C20_QuantizeFileIffThresholds ==
  CodeEmitted => (QuantizeFilesAre(QuantizersWithThresholds # {}) /\ UnitFilesEmitted)

\* code was emitted for a quantized AST of two units with thresholds on the
\* second feature alone
C20_Witness ==
  /\ CodeEmitted
  /\ QuantizersWithThresholds # {}
  /\ nodes[TopChild].threshold_list[1] = <<>>
  /\ Cardinality(TranslationUnits) = 2
  /\ "quantize.c" \in EmittedFiles
  /\ "tu1.c" \in EmittedFiles

(***************************************************************************)
(* C21: for every feature whose threshold_list is empty, th_begin[feature]  *)
(* equals total_num_threshold, so the generated quantize(val, feature)      *)
(* returns -10 for every val and never reads an element of threshold[],     *)
(* also when a feature with a larger index has thresholds.                  *)
(***************************************************************************)
ThresholdListOf(fid) == nodes[TopChild].threshold_list[fid + 1]
EmptyListFeatures == {fid \in 0..(meta.num_feature - 1) : ThresholdListOf(fid) = <<>>}
LaterFeaturesWithThresholds(fid) ==
  {g \in (fid + 1)..(meta.num_feature - 1) : ThresholdListOf(g) # <<>>}
ThresholdsBefore(fid) == SeqSum([g \in 1..fid |-> Len(ThresholdListOf(g - 1))])

C21_EmptyListOffsetIsTotal ==
  (CodeEmitted /\ HasQuantizer /\ QuantizeEmitted) =>
    \A fid \in EmptyListFeatures :
      /\ QuantizeArrays.th_begin[fid + 1] = QuantizeTotal
      /\ \A val \in FeatureValues :
           /\ Quantize(val, fid, QuantizeArrays, QuantizeTotal).ret = QUANTIZE_BELOW
           /\ QuantizeReads(val, fid, QuantizeArrays, QuantizeTotal) = {}

\* C21, amended: for a feature whose threshold_list is empty, th_begin is
\* the number of thresholds of the features before it.  When no later
\* feature has thresholds that is total_num_threshold, and quantize returns
\* -10 without reading threshold[]; when a later feature has thresholds,
\* quantize reads threshold[th_begin[feature]], the first threshold of the
\* next feature that has any, and nothing else, and returns -10 for a val
\* below it and 0 for every other val.
C21_EmptyListOffsetCountsEarlier ==
  (CodeEmitted /\ HasQuantizer /\ QuantizeEmitted) =>
    \A fid \in EmptyListFeatures :
      LET offset == QuantizeArrays.th_begin[fid + 1]
      IN  /\ offset = ThresholdsBefore(fid)
          /\ (offset = QuantizeTotal) = (LaterFeaturesWithThresholds(fid) = {})
          /\ \A val \in FeatureValues :
               LET r == Quantize(val, fid, QuantizeArrays, QuantizeTotal)
                   reads == QuantizeReads(val, fid, QuantizeArrays, QuantizeTotal)
               IN  IF LaterFeaturesWithThresholds(fid) = {}
                   THEN r.terminates /\ r.ret = QUANTIZE_BELOW /\ reads = {}
                   ELSE /\ offset < Len(QuantizeArrays.threshold)
                        /\ reads = {offset}
                        /\ r.terminates
                        /\ r.ret = IF FLt(val, QuantizeArrays.threshold[offset + 1])
                                   THEN QUANTIZE_BELOW ELSE 0

\* quantize.c was emitted with no threshold on the first feature and some
\* on a later one
C21_Witness ==
  /\ CodeEmitted /\ HasQuantizer /\ QuantizeEmitted
  /\ 0 \in EmptyListFeatures /\ LaterFeaturesWithThresholds(0) # {}

\* quantize.c was emitted with no threshold on the last feature
C21_TrailingWitness ==
  /\ CodeEmitted /\ HasQuantizer /\ QuantizeEmitted
  /\ (meta.num_feature - 1) \in EmptyListFeatures

(***************************************************************************)
(* C22: a C API function wrapped in API_BEGIN/API_END returns 0 when its    *)
(* body completes and -1 when its body throws; in the second case the       *)
(* last-error string of the calling thread is the thrown error's message,   *)
(* and the last-error string seen by any other thread is not changed.       *)
(***************************************************************************)
Returned(thread) == capi.call[thread].pc = "outside" /\ capi.call[thread].body # "none"
Returns(thread) == capi.call[thread].pc # "outside" /\ capi'.call[thread].pc = "outside"

C22_ReturnValueAndLastError ==
  /\ [](\A thread \in ApiThreads :
          Returned(thread) =>
            /\ (capi.call[thread].body = "completed") = (capi.call[thread].ret = 0)
            /\ (capi.call[thread].body = "threw") = (capi.call[thread].ret = -1))
  /\ [][\A thread \in ApiThreads :
          /\ (Returns(thread) /\ capi.call[thread].body = "threw") =>
               capi'.last_error[ThreadLocalStoreGet(thread)] = capi.call[thread].exception
          /\ (capi.call[thread] # capi'.call[thread]) =>
               \A other \in ApiThreads \ {thread} :
                 capi'.last_error[ThreadLocalStoreGet(other)]
                   = capi.last_error[ThreadLocalStoreGet(other)]]_vars

\* a call has failed on thread 0 while thread 1 kept the message of a
\* failure of its own, and later completed a call
C22_Witness ==
  /\ Returned(0) /\ capi.call[0].ret = -1
  /\ Returned(1) /\ capi.call[1].ret = 0
  /\ TL2cgenGetLastError(0) = "Check failed"
  /\ TL2cgenGetLastError(1) = "Unrecognized key"

(***************************************************************************)
(* C23: after any sequence of Annotate and Load calls on one annotator that *)
(* ends with a successful Annotate(model, dmat), counts has exactly one row *)
(* per tree of the model, row i has as many entries as tree i has nodes,    *)
(* and counts[i][j] is the number of rows of dmat whose traversal of tree i *)
(* visited node j in that last call only.                                   *)
(***************************************************************************)
C23_CountsOfLastAnnotate ==
  (AnnotateDone /\ dmat.num_col >= model.num_feature) =>
    /\ Len(annotator.counts_) = Len(model.trees)
    /\ \A i \in DOMAIN model.trees :
         /\ Len(annotator.counts_[i]) = Len(model.trees[i])
         /\ \A k \in DOMAIN model.trees[i] :
              annotator.counts_[i][k] = SequentialCounts[i][k]

(***************************************************************************)
(* C27: during annotate, worker k increments only cells of its own slice of *)
(* counts_tloc and reads and writes only its own slice of the per-thread    *)
(* feature buffer inst, so no two workers access the same cell; the         *)
(* summation of the slices into the final counts starts only after every    *)
(* worker has finished its rows.                                            *)
(***************************************************************************)
InstSlice(tid) == (dmat.num_col * tid + 1)..(dmat.num_col * (tid + 1))
CountsSlice(tid) ==
  LET total == CountRowPtr(model)[Len(model.trees) + 1]
  IN  (total * tid + 1)..(total * (tid + 1))
Workers == {tid \in 0..(MaxNumThread - 1) : tid + 1 \in DOMAIN annotator.thread}

\* the cells of inst that worker tid reads while it traverses the trees
InstReads(tid) ==
  UNION {LET data == [f \in 1..model.num_feature |->
                        AnnotatorRead(annotator.inst, dmat.num_col * tid + f - 1, garbage)]
         IN  UNION {{dmat.num_col * tid + f + 1 :
                       f \in TraverseReads(model.trees[i], data, 0, ub)} :
                      i \in DOMAIN model.trees, ub \in UbChoices(data)} :
           garbage \in OutOfBoundsEntries}

ReadsOwnSlice ==
  annotator.pc = "region" =>
    \A tid \in Workers :
      annotator.thread[tid + 1].pc = "traverse" => InstReads(tid) \subseteq InstSlice(tid)

\* a step of worker tid and of no other
WorkerStep(tid) ==
  /\ annotator.pc = "region" /\ annotator'.pc = "region"
  /\ annotator'.thread[tid + 1] # annotator.thread[tid + 1]
  /\ \A other \in Workers \ {tid} : annotator'.thread[other + 1] = annotator.thread[other + 1]

WritesOwnSlice ==
  \A tid \in Workers :
    WorkerStep(tid) =>
      /\ \A i \in DOMAIN annotator.inst :
           annotator'.inst[i] # annotator.inst[i] => i \in InstSlice(tid)
      /\ \A i \in DOMAIN annotator.counts_tloc :
           annotator'.counts_tloc[i] # annotator.counts_tloc[i] => i \in CountsSlice(tid)

ReductionAfterWorkers ==
  (annotator.pc # "done" /\ annotator'.pc = "done") =>
    /\ \A tid \in Workers : annotator.thread[tid + 1].pc = "joined"
    /\ \A tid \in Workers : annotator'.thread[tid + 1] = annotator.thread[tid + 1]

C27_WorkersKeepToTheirSlices ==
  []ReadsOwnSlice /\ [][WritesOwnSlice /\ ReductionAfterWorkers]_vars

\* the same for the matrices that are as wide as the model
C27_WideMatrixSlices ==
  [](dmat.num_col >= model.num_feature => ReadsOwnSlice)
    /\ [][WritesOwnSlice /\ ReductionAfterWorkers]_vars

(***************************************************************************)
(* C28: after a successful annotate of a matrix of num_row rows on a fresh  *)
(* annotator, for every tree the count of the root is num_row and the count *)
(* of every internal node is the sum of the counts of its two children:     *)
(* every row is traversed exactly once per tree, for every num_row >= 0,    *)
(* also one that 20 does not divide.                                        *)
(***************************************************************************)
C28_EveryRowOncePerTree ==
  (AnnotateDone /\ PriorRows = 0) =>
    /\ Len(annotator.counts_) = Len(model.trees)
    /\ \A i \in DOMAIN model.trees :
         LET tree == model.trees[i]
             counts == annotator.counts_[i]
         IN  /\ counts[1] = dmat.num_row
             /\ \A k \in DOMAIN tree :
                  ~tree[k].is_leaf =>
                    counts[k] = counts[tree[k].left_child + 1] + counts[tree[k].right_child + 1]

\* two threads have annotated 21 rows, band after band, with two trees
C28_Witness ==
  /\ AnnotateDone /\ PriorRows = 0
  /\ annotator.nthread = 2
  /\ dmat.num_row = ManyRows
  /\ Len(model.trees) = 2
  /\ annotator.counts_[2][1] = ManyRows

\* an annotate of a matrix without rows has succeeded
C28_EmptyWitness ==
  /\ AnnotateDone /\ PriorRows = 0
  /\ dmat.num_row = 0
  /\ \A i \in DOMAIN model.trees : \A k \in DOMAIN model.trees[i] : annotator.counts_[i][k] = 0

(***************************************************************************)
(* C24: after build and after every pass, in any order (load_data_counts,   *)
(* split_into_tus, generate_is_categorical_array, quantize_thresholds), the *)
(* AST keeps its shape: the root is Main with exactly one child, that child *)
(* is a Function or a Quantizer whose single child is a Function, every     *)
(* Condition node has exactly two children (left then right), every Output  *)
(* node has no children, and every child's parent pointer names the node    *)
(* whose child list contains it.                                            *)
(***************************************************************************)
C24_ASTKeepsItsShape ==
  Built =>
    /\ nodes[main_node].kind = "MainNode"
    /\ Len(nodes[main_node].children) = 1
    /\ \/ nodes[TopChild].kind = "FunctionNode"
       \/ /\ nodes[TopChild].kind = "QuantizerNode"
          /\ Len(nodes[TopChild].children) = 1
          /\ nodes[nodes[TopChild].children[1]].kind = "FunctionNode"
    /\ \A node \in ASTNodes :
         /\ IsConditionNode(nodes[node]) =>
              /\ Len(nodes[node].children) = 2
              /\ nodes[nodes[node].children[1]].node_id = TreeNodeOf(node).left_child
              /\ nodes[nodes[node].children[2]].node_id = TreeNodeOf(node).right_child
         /\ nodes[node].kind = "OutputNode" => nodes[node].children = <<>>
         /\ \A k \in DOMAIN nodes[node].children :
              nodes[nodes[node].children[k]].parent = node

\* all four passes have run on two trees: two units under a Quantizer, the
\* data counts loaded, the categorical features marked
C24_Witness ==
  /\ HasQuantizer
  /\ Cardinality(TranslationUnits) = 2
  /\ Len(meta.is_categorical) = meta.num_feature
  /\ \E node \in ConditionNodes : nodes[node].data_count # nullopt
  /\ \E node \in CategoricalNodes : TRUE

(***************************************************************************)
(* C25: after split_into_tus(n), n > 0, on ntree >= 1 trees, the            *)
(* TranslationUnits carry unit_id 0, 1, ..., k-1 in that order with no gap, *)
(* every TranslationUnit but the last holds exactly ceil(ntree / n)         *)
(* consecutive trees and the last holds at least one and at most            *)
(* ceil(ntree / n); when n >= ntree there are exactly ntree                 *)
(* TranslationUnits, each holding one tree.                                 *)
(***************************************************************************)
CeilDiv(a, b) == (a \div b) + (IF a % b = 0 THEN 0 ELSE 1)

UnitsAsClaimed(arena, ntree, n) ==
  LET units == arena[arena[main_node].children[1]].children
      k == Len(units)
      TreesOf(u) == arena[arena[units[u]].children[1]].children
      size == CeilDiv(ntree, n)
  IN  /\ k >= 1
      /\ \A u \in 1..k :
           /\ arena[units[u]].kind = "TranslationUnitNode"
           /\ arena[units[u]].unit_id = u - 1
           /\ \A t \in DOMAIN TreesOf(u) :
                arena[TreesOf(u)[t]].tree_id = (u - 1) * size + t - 1
      /\ \A u \in 1..(k - 1) : Len(TreesOf(u)) = size
      /\ Len(TreesOf(k)) >= 1 /\ Len(TreesOf(k)) <= size
      /\ n >= ntree => (k = ntree /\ \A u \in 1..k : Len(TreesOf(u)) = 1)

\* a successful split_into_tus(n), n > 0, of an AST that held at least one tree
SplitStep ==
  /\ last_call'.name = "SplitIntoTUs" /\ last_call'.ok /\ last_call'.arg > 0
  /\ Built
  /\ Len(nodes[TopChild].children) >= 1

C25_UnitIdsAndSizes ==
  [][SplitStep =>
       UnitsAsClaimed(nodes', Len(nodes[TopChild].children), last_call'.arg)]_vars

\* the same for every n but INT_MAX
C25_UnitsWithoutOverflow ==
  [][(SplitStep /\ last_call'.arg < INT_MAX) =>
       UnitsAsClaimed(nodes', Len(nodes[TopChild].children), last_call'.arg)]_vars

\* two trees were split into two units
C25_SplitWitness ==
  /\ last_call.name = "SplitIntoTUs" /\ last_call.ok /\ last_call.arg = 3
  /\ Len(nodes[TopChild].children) = 2

(***************************************************************************)
(* C26: after quantize_thresholds, every NumericalCondition with a finite  *)
(* threshold on feature f has zero_quantized = 2*i when 0.0 is the element *)
(* at index i of threshold_list[f], and zero_quantized = 2*i - 1           *)
(* otherwise, where i is the number of thresholds smaller than 0.0,        *)
(* including i = 0 and i = length of the list.                             *)
(***************************************************************************)
FiniteNumericalNodes ==
  {node \in ASTNodes : /\ nodes[node].kind = "NumericalConditionNode"
                       /\ isfinite(nodes[node].threshold)}

\* the number of thresholds of feature fid that are smaller than 0.0
InsertionPointOfZero(fid) ==
  Cardinality({j \in DOMAIN ThresholdListOf(fid) : FLt(ThresholdListOf(fid)[j], 0)})

ZeroIsThreshold(fid) == \E j \in DOMAIN ThresholdListOf(fid) : FEq(ThresholdListOf(fid)[j], 0)

ZeroAboveAll(fid) == InsertionPointOfZero(fid) = Len(ThresholdListOf(fid))

C26_ZeroQuantizedOddUnlessPresent ==
  HasQuantizer =>
    \A node \in FiniteNumericalNodes :
      LET fid == nodes[node].split_index
          i == InsertionPointOfZero(fid)
      IN  nodes[node].zero_quantized = IF ZeroIsThreshold(fid) THEN 2 * i ELSE 2 * i - 1

\* as the code has it: 2*i also when 0.0 is larger than every threshold
C26_ZeroQuantizedEvenPastTheEnd ==
  HasQuantizer =>
    \A node \in FiniteNumericalNodes :
      LET fid == nodes[node].split_index
          i == InsertionPointOfZero(fid)
      IN  nodes[node].zero_quantized =
            IF ZeroIsThreshold(fid) \/ ZeroAboveAll(fid) THEN 2 * i ELSE 2 * i - 1

\* one list with 0.0 past its end and one with 0.0 before its first element
C26_Witness ==
  /\ HasQuantizer
  /\ \E node \in FiniteNumericalNodes :
       /\ ZeroAboveAll(nodes[node].split_index)
       /\ nodes[node].zero_quantized = 2 * Len(ThresholdListOf(nodes[node].split_index))
  /\ \E node \in FiniteNumericalNodes : nodes[node].zero_quantized = -1

\* a list that holds 0.0 after a smaller threshold
C26_PresentWitness ==
  /\ HasQuantizer
  /\ \E node \in FiniteNumericalNodes :
       /\ ZeroIsThreshold(nodes[node].split_index)
       /\ nodes[node].zero_quantized = 2

(***************************************************************************)
(* C29: the generated quantize(val, fid) never returns -1, so after the    *)
(* quantize loop has overwritten the qvalue of a present feature, reading  *)
(* the same union Entry through its missing member never yields -1: a      *)
(* present feature is never treated as missing by a quantized condition,   *)
(* and a missing feature is never quantized.                               *)
(***************************************************************************)
QuantizeLoopEmitted ==
  /\ CodeEmitted /\ HasQuantizer /\ QuantizeEmitted
  /\ Len(meta.is_categorical) = meta.num_feature

C29_QuantizeNeverMinusOne ==
  QuantizeLoopEmitted =>
    \A fid \in 0..(meta.num_feature - 1) : \A val \in FeatureValues :
      LET row == QuantizedRow(RowWith(fid, FvalueEntry(val)))
      IN  /\ Quantize(val, fid, QuantizeArrays, QuantizeTotal).ret # -1
          /\ ~ReadsAsMissing(row[fid + 1])
          /\ \A g \in DOMAIN row : g # fid + 1 => row[g] = MissingEntry

\* a value below every threshold, a value between two thresholds and a value
\* past the last one were quantized next to missing features
C29_Witness ==
  /\ QuantizeLoopEmitted
  /\ \E fid \in 0..(meta.num_feature - 1) :
       /\ \E val \in FeatureValues :
            QuantizedRow(RowWith(fid, FvalueEntry(val)))[fid + 1] = QvalueEntry(QUANTIZE_BELOW)
       /\ \E val \in FeatureValues :
            QuantizedRow(RowWith(fid, FvalueEntry(val)))[fid + 1] = QvalueEntry(1)
       /\ QuantizedRow(RowWith(fid, FvalueEntry(NaN)))[fid + 1]
            = QvalueEntry(2 * Len(ThresholdListOf(fid)))
       /\ \E g \in 0..(meta.num_feature - 1) :
            g # fid /\ QuantizedRow(RowWith(fid, FvalueEntry(0)))[g + 1] = MissingEntry

(***************************************************************************)
(* C30: for every model and every row, the annotator's traversal visits    *)
(* exactly the nodes that the generated predict code evaluates for that    *)
(* row: at every condition node (numerical with finite or infinite         *)
(* threshold; categorical with any category list, either value of          *)
(* category_list_right_child and of default_left; present, missing,        *)
(* negative and non-integer feature values) the child chosen by the        *)
(* annotator is the child chosen by the emitted test.                      *)
(***************************************************************************)
\* Traverse_ started at the tree node of an AST condition node steps to its
\* left child
AnnotatorGoesLeft(node, data, ub) ==
  LET tree == model.trees[nodes[node].tree_id + 1]
      out_counts == Traverse_(tree, data, nodes[node].node_id,
                              [i \in DOMAIN tree |-> 0], ub)
  IN  out_counts[TreeNodeOf(node).left_child + 1] = 1

EmittedGoesLeft(node, data, ub) == EvalCondition(IfFragmentOf(node).condition, data, ub)

\* what data[split_index] can hold: NaN cells of a matrix are left missing
RowEntries_ == {MissingEntry} \cup {FvalueEntry(v) : v \in FeatureValues \ {NaN}}

SameChild(node, entry) ==
  LET data == RowWith(nodes[node].split_index, entry)
  IN  \A ub \in UbChoices(data) :
        AnnotatorGoesLeft(node, data, ub) = EmittedGoesLeft(node, data, ub)

C30_AnnotatorFollowsEmittedTest ==
  (CodeEmitted /\ ~HasQuantizer) =>
    \A node \in ConditionNodes : \A entry \in RowEntries_ : SameChild(node, entry)

\* the cases in which the two do agree
OrdinaryCase(node, entry) ==
  IF nodes[node].kind = "NumericalConditionNode"
  THEN isinf(nodes[node].threshold) => (entry.tag = "missing" \/ isfinite(entry.v))
  ELSE /\ nodes[node].category_list # <<>>
       /\ entry.tag # "missing" => (entry.v >= 0 /\ FabsAtMostMantissa(entry.v))

C30_SameChildInOrdinaryCases ==
  (CodeEmitted /\ ~HasQuantizer) =>
    \A node \in ConditionNodes : \A entry \in RowEntries_ :
      OrdinaryCase(node, entry) => SameChild(node, entry)

====
